---- MODULE Spec2Model ----
(***************************************************************************)
(* Verification model of parts of noodles (sharkLoc/noodles):              *)
(*                                                                         *)
(*   - the CRAM feature -> CIGAR iterator                                  *)
(*       noodles-cram/src/record/features/cigar.rs                         *)
(*   - the rANS 4x8 entropy codec                                          *)
(*       noodles-cram/src/codecs/rans_4x8/encode.rs                        *)
(*       noodles-cram/src/codecs/rans_4x8/decode/order_1.rs                *)
(*   - three stream readers                                                *)
(*       noodles-cram/src/async/io/reader/container.rs   (read_container)  *)
(*       noodles-csi/src/reader/index/reference_sequences/bins.rs          *)
(*       noodles-bam/src/reader/record.rs                (read_record)     *)
(*                                                                         *)
(* Each subsystem has its own specification (SpecCigar, Spec, SpecOrder1,  *)
(* SpecVector, SpecLanes, SpecContainer, SpecBins, SpecRecord, SpecLine,   *)
(* SpecStep, SpecTables); the variables of the other subsystems stay at    *)
(* their idle value.                                                       *)
(***************************************************************************)
EXTENDS Integers, Sequences, FiniteSets, TLC

VARIABLES
    \* ---- Cigar<'a> (cigar.rs:9-14) ----
    features,       \* slice::Iter<Feature>: the features not yet consumed
    read_length,    \* usize
    read_position,  \* Position (1-based, Position::MIN = 1)
    next_op,        \* Option<(Kind, usize)>
    \* ---- observation of the iterator's caller ----
    all_features,   \* the slice the iterator was built over
    ops,            \* the operations yielded so far (what collect() gathers)
    ret,            \* the value returned by the last call of next()
    calls,          \* number of next() calls made after the first None
    status,         \* "ok", or "panicked" once todo!() has unwound
    \* ---- rANS 4x8: the caller of encode and decode ----
    order,          \* Order::Zero (0) or Order::One (1) given to encode
    src,            \* the bytes given to encode
    encoded,        \* what encode returned
    tamper,         \* what happened to the bytes on their way to decode
    stream,         \* the bytes behind the reader given to decode
    pc,             \* where the caller / decode is
    \* ---- rANS 4x8: decode ----
    pos,            \* number of bytes the reader has handed out
    dorder,         \* the order tag read from the header
    freqs,          \* frequencies, per context (order 0: context 0 only)
    states,         \* the state of each lane: states / chunks[k].0
    last_syms,      \* the last symbol of each lane: chunks[k].1
    dst,            \* the output buffer
    i,              \* the loop counter of order_1.rs:38 (order 0: the output index)
    lane,           \* the position of the inner loop of order_1.rs:39
    rem_r,          \* order_1.rs:56: r, lane 3's state copied for the remainder
    rem_last_sym,   \* order_1.rs:56: last_sym, lane 3's last symbol copied likewise
    rem_count,      \* number of remainder bytes produced (order_1.rs:59)
    idx,            \* SpecLanes only: symbols produced by each lane
    \* ---- rANS 4x8: observation ----
    zero_hit,       \* a lookup has given a symbol of frequency 0
    reads,          \* for every byte read by rans_renorm, the lane that read it
    steps,          \* symbols decoded and renormalized so far
    writes,         \* for every byte written to dst: its lane, index and context
    \* ---- the stream readers: the caller of read_container / read_bins / read_record ----
    reader,         \* which function the caller exercises
    input,          \* the bytes (fields) behind the reader
    offset,         \* how many of them the reader has handed out
    caller_buf,     \* the caller's buffer (buf: &mut BytesMut / &mut Vec<u8>)
    record,         \* the caller's record (record: &mut Record)
    result,         \* what the last call returned
    before,         \* offset, buf and record as they were when the last call began
    ncalls,         \* number of calls made
    layout,         \* read_bins: the entries the input was laid out from
    future,         \* the call of an async fn that has yielded at an await, if any
    \* ---- rANS 4x8: one encoder step (normalize, update) and the decoder step undoing it ----
    coder           \* the arguments x, freq_i, cfreq_i, the bytes written and the states reached

cigar_vars == <<features, read_length, read_position, next_op,
                all_features, ops, ret, calls, status>>

rans_vars == <<order, src, encoded, tamper, stream, pc, pos, dorder, freqs, states,
               last_syms, dst, i, lane, rem_r, rem_last_sym, rem_count, idx,
               zero_hit, reads, steps, writes>>

io_vars == <<reader, input, offset, caller_buf, record, result, before, ncalls, layout, future>>

vars == <<cigar_vars, rans_vars, io_vars, coder>>

\* no encoder step is being made
CoderIdle == coder = [at |-> "idle"]

\* no call has been made
NoResult == [kind |-> "NotCalled"]
NoRecord == [kind |-> "Default"]
\* no call is in flight
NoFuture == [at |-> "none"]
\* Poll::Pending: the call has yielded at an await
Pending == [kind |-> "Pending"]
\* the caller has dropped a future that had yielded
Cancelled == [kind |-> "Cancelled"]

\* the stream readers while another subsystem is exercised
IoIdle ==
    /\ reader = "none" /\ input = <<>> /\ offset = 0 /\ caller_buf = <<>> /\ record = NoRecord
    /\ result = NoResult /\ before = [offset |-> 0, buf |-> <<>>, record |-> NoRecord]
    /\ ncalls = 0 /\ layout = <<>> /\ future = NoFuture

(***************************************************************************)
(*                         CIGAR ITERATOR                                  *)
(***************************************************************************)

\* ---- bounds of the model ----
MaxFeatures == 2
MaxReadLength == 3
MaxCallsAfterNone == 1

\* Feature kinds with a CIGAR operation (cigar.rs:59-66) ...
LengthFromBases == {"Insertion", "SoftClip"}
LengthFromField == {"Deletion", "ReferenceSkip", "Padding", "HardClip"}
LengthOne == {"Substitution", "InsertBase"}
\* ... and the kinds that fall into the `_ => todo!()` arm (cigar.rs:67)
NoOperation == {"Bases", "Scores", "ReadBase", "QualityScore"}
FeatureKinds == LengthFromBases \cup LengthFromField \cup LengthOne \cup NoOperation

\* A feature: its kind, its position and its length (bases.len() for
\* Insertion / SoftClip, the len field for Deletion / ReferenceSkip /
\* Padding / HardClip; features without a length carry 0 here).
Positions == 1..MaxReadLength
OpLens == {1, 2}
FeatureSet ==
    { [kind |-> k, position |-> p, len |-> n] :
        k \in LengthFromBases \cup LengthFromField, p \in Positions, n \in OpLens }
    \cup
    { [kind |-> k, position |-> p, len |-> 0] :
        k \in LengthOne \cup NoOperation, p \in Positions }

FeatureLists == UNION { [1..n -> FeatureSet] : n \in 0..MaxFeatures }

None == [kind |-> "None", len |-> 0]
Op(kind, len) == [kind |-> kind, len |-> len]
NotCalled == [kind |-> "NotCalled", len |-> 0]

\* Position::MIN
PositionMin == 1

\* Kind::consumes_read (noodles-sam, alignment/record/cigar/op/kind.rs)
ConsumesRead(kind) == kind \in {"Match", "Insertion", "SoftClip", "SequenceMatch", "SequenceMismatch"}

\* usize::MAX, here of a target with 16-bit pointers: the integers of the
\* checker end at 2^31 - 1, below usize::MAX of the 32- and 64-bit targets,
\* and the arithmetic on usize is the same for every width
USIZE_MAX == 65535

\* cigar.rs:26-31: Position::checked_add gives None when the sum leaves usize
\* and expect() panics on it; 0, which is no Position, stands for that panic
\* (mutant: the cursor is left where it was)
consume_read_NoAdvance(position, len) == position
consume_read(position, len) == IF len > USIZE_MAX - position THEN 0 ELSE position + len

\* cigar.rs:44 (mutant: the + 1 of the 1-based cursor forgotten)
TrailingLenNoPlusOne(position, len) == len - position
TrailingLen(position, len) == len - position + 1

\* cigar.rs:52-56: the match over the bases between the cursor and a feature
\* ahead of it (mutant: a feature at the cursor counts as ahead)
Gap_AtCursor(f, position) ==
    IF f.position >= position THEN Op("Match", f.position - position) ELSE None
\* (mutant: a feature behind the cursor is given a match as well)
Gap_EitherSide(f, position) ==
    IF f.position > position THEN Op("Match", f.position - position)
    ELSE IF f.position < position THEN Op("Match", position - f.position)
    ELSE None
Gap(f, position) ==
    IF f.position > position THEN Op("Match", f.position - position) ELSE None

\* cigar.rs:58-68: the operation of a feature with a defined operation
FeatureOp(f) ==
    CASE f.kind = "Substitution"  -> Op("Match", 1)
      [] f.kind = "Insertion"     -> Op("Insertion", f.len)
      [] f.kind = "Deletion"      -> Op("Deletion", f.len)
      [] f.kind = "InsertBase"    -> Op("Insertion", 1)
      [] f.kind = "ReferenceSkip" -> Op("Skip", f.len)
      [] f.kind = "SoftClip"      -> Op("SoftClip", f.len)
      [] f.kind = "Padding"       -> Op("Pad", f.len)
      [] f.kind = "HardClip"      -> Op("HardClip", f.len)

\* the rANS variables while the iterator is exercised
RansIdle ==
    /\ order = 0 /\ src = <<>> /\ encoded = <<>> /\ stream = <<>>
    /\ tamper = [kind |-> "none", at |-> 0, lane |-> 0, value |-> 0]
    /\ pc = "idle" /\ pos = 0 /\ dorder = 0 /\ freqs = << >>
    /\ states = [k \in 0..3 |-> 0] /\ last_syms = [k \in 0..3 |-> 0]
    /\ dst = <<>> /\ i = 0 /\ lane = 0 /\ rem_r = 0 /\ rem_last_sym = 0 /\ rem_count = 0
    /\ idx = [k \in 0..3 |-> 0]
    /\ zero_hit = FALSE /\ reads = <<>> /\ steps = 0 /\ writes = <<>>

\* the feature lists of test_next (cigar.rs:93-160), all with read length 4
Feature(kind, position, len) == [kind |-> kind, position |-> position, len |-> len]
TestReadLength == 4
TestSoftClip2 == << Feature("SoftClip", 1, 2) >>
TestSoftClipAtEnd == << Feature("SoftClip", 4, 1) >>
TestHardClip == << Feature("HardClip", 1, 2) >>
TestSoftClipSubstitution == << Feature("SoftClip", 1, 1), Feature("Substitution", 3, 0) >>
TestSubstitution == << Feature("Substitution", 2, 0) >>
TestFeatureLists ==
    { <<>>, TestSoftClip2, TestSoftClipAtEnd, TestHardClip, TestSoftClipSubstitution,
      TestSubstitution }

\* read lengths and feature lists at the end of usize
LongReadLengths == {USIZE_MAX - 1, USIZE_MAX}
LongFeatureLists ==
    { <<>>, << Feature("SoftClip", USIZE_MAX, 1) >>, << Feature("HardClip", USIZE_MAX, 2) >>,
      << Feature("Substitution", USIZE_MAX - 1, 0) >>, << Feature("Insertion", USIZE_MAX - 1, 2) >> }

\* Cigar::new (cigar.rs:17-24)
CigarInit ==
    /\ CoderIdle
    /\ RansIdle
    /\ IoIdle
    /\ \/ all_features \in FeatureLists /\ read_length \in 0..MaxReadLength
       \/ all_features \in TestFeatureLists /\ read_length = TestReadLength
       \/ all_features \in LongFeatureLists /\ read_length \in LongReadLengths
    /\ features = all_features
    /\ read_position = PositionMin
    /\ next_op = None
    /\ ops = <<>>
    /\ ret = NotCalled
    /\ calls = 0
    /\ status = "ok"

\* What the caller sees of a call that returned `item`
\* (mutant: an operation of the kind of the one before it is merged into it)
Returned_Merging(item) ==
    /\ ret' = item
    /\ ops' = IF item = None THEN ops
              ELSE IF ops # <<>> /\ ops[Len(ops)].kind = item.kind
                      THEN [ops EXCEPT ![Len(ops)] = Op(item.kind, ops[Len(ops)].len + item.len)]
                      ELSE Append(ops, item)
    /\ calls' = IF ret = None THEN calls + 1 ELSE calls
    /\ UNCHANGED <<coder, all_features, read_length, status, rans_vars, io_vars>>
Returned(item) ==
    /\ ret' = item
    /\ ops' = IF item = None THEN ops ELSE Append(ops, item)
    /\ calls' = IF ret = None THEN calls + 1 ELSE calls
    /\ UNCHANGED <<coder, all_features, read_length, status, rans_vars, io_vars>>

\* What the caller sees of a call that panicked: nothing is returned
Unwound ==
    /\ status' = "panicked"
    /\ UNCHANGED <<all_features, read_length, ops, ret, calls, rans_vars, io_vars, coder>>

\* cigar.rs:38-40: a pending operation is handed out first
NextPending ==
    /\ status = "ok"
    /\ next_op # None
    /\ next_op' = None
    /\ Returned(next_op)
    /\ UNCHANGED <<coder, features, read_position>>

\* cigar.rs:42-50: the features are exhausted
NextTrailing ==
    /\ status = "ok"
    /\ next_op = None
    /\ features = <<>>
    /\ ret = None => calls < MaxCallsAfterNone
    /\ IF read_position <= read_length
          THEN LET len == TrailingLen(read_position, read_length)
                   moved == consume_read(read_position, len)
               IN  IF moved = 0
                      THEN \* cigar.rs:45: consume_read panics, nothing was assigned
                           /\ read_position' = read_position
                           /\ Unwound
                      ELSE /\ read_position' = moved
                           /\ Returned(Op("Match", len))
          ELSE /\ read_position' = read_position
               /\ Returned(None)
    /\ UNCHANGED <<coder, features, next_op>>

\* cigar.rs:42, 52-77: the next feature
NextFeature ==
    /\ status = "ok"
    /\ next_op = None
    /\ features # <<>>
    /\ LET feature == Head(features)
           gap     == Gap(feature, read_position)
           pos1    == IF gap # None THEN feature.position ELSE read_position
       IN  /\ features' = Tail(features)
           /\ IF feature.kind \in NoOperation
                 THEN \* todo!() panics after lines 52-56 have run
                      /\ read_position' = pos1
                      /\ next_op' = gap
                      /\ Unwound
                 ELSE LET op == FeatureOp(feature)
                          moved == IF ConsumesRead(op.kind)
                                      THEN consume_read(pos1, op.len)
                                      ELSE pos1
                      IN  IF moved = 0
                             THEN \* cigar.rs:71: consume_read panics after lines 52-56 have run
                                  /\ read_position' = pos1
                                  /\ next_op' = gap
                                  /\ Unwound
                             ELSE /\ read_position' = moved
                                  /\ IF gap # None
                                        THEN /\ next_op' = op
                                             /\ Returned(gap)
                                        ELSE /\ next_op' = None
                                             /\ Returned(op)

CigarNext == NextPending \/ NextTrailing \/ NextFeature

SpecCigar == CigarInit /\ [][CigarNext]_vars

\* ---- observations of the iterator used by the properties ----
RECURSIVE ReadConsumed(_)
ReadConsumed(s) ==
    IF s = <<>> THEN 0
    ELSE (IF ConsumesRead(Head(s).kind) THEN Head(s).len ELSE 0) + ReadConsumed(Tail(s))

\* collect() has run the iterator to its end
Exhausted == status = "ok" /\ ret = None

(* ---------------- properties of the iterator (continued) --------------- *)

\* the features the iterator has taken from the list so far
Taken == SubSeq(all_features, 1, Len(all_features) - Len(features))

\* the cursor advance of an operation, as far as it consumes read bases
Advance(op) == IF op.kind \in {"Match", "Insertion", "SoftClip"} THEN op.len ELSE 0

\* C11: a feature ahead of the cursor c is preceded by Match(p - c), with its
\* own operation yielded by the very next call and the cursor moved to p
\* (and on by the operation itself when it consumes read bases); a feature
\* at the cursor is yielded with no Match before it; after the last feature
\* a final Match(L - c + 1) is yielded iff c <= L.
C11_GapBeforeFeature ==
    [][ /\ (status = "ok" /\ status' = "ok" /\ next_op = None /\ features # <<>>) =>
              LET f   == Head(features)
                  own == FeatureOp(f)
              IN  IF f.position > read_position
                     THEN /\ ret' = Op("Match", f.position - read_position)
                          /\ next_op' = own
                          /\ read_position' = f.position + Advance(own)
                     ELSE /\ ret' = own
                          /\ next_op' = None
                          /\ read_position' = read_position + Advance(own)
        /\ (status = "ok" /\ next_op # None) => (ret' = next_op /\ next_op' = None)
        /\ (status = "ok" /\ next_op = None /\ features = <<>>) =>
              ret' = IF read_position <= read_length
                        THEN Op("Match", read_length - read_position + 1)
                        ELSE None
      ]_vars

\* after the last feature (a substitution at usize::MAX - 1, cursor at
\* usize::MAX) the call that owes the final Match(1) has panicked at
\* cigar.rs:45 instead
FinalMatchPanicked ==
    /\ all_features = << Feature("Substitution", USIZE_MAX - 1, 0) >> /\ read_length = USIZE_MAX
    /\ status = "panicked" /\ features = <<>> /\ read_position = USIZE_MAX
    /\ ops = << Op("Match", USIZE_MAX - 2), Op("Match", 1) >>

\* a soft clip of one base at usize::MAX: the call panics at cigar.rs:71 with
\* the gap Match parked in next_op and never yielded
GapMatchLost ==
    /\ all_features = << Feature("SoftClip", USIZE_MAX, 1) >>
    /\ status = "panicked" /\ ops = <<>> /\ next_op = Op("Match", USIZE_MAX - 1)
    /\ read_position = USIZE_MAX

\* what remains of C11: the same over the calls made with the cursor and the
\* operation's length inside usize
GapBeforeFeatureInsideUsize ==
    [][ /\ (status = "ok" /\ status' = "ok" /\ next_op = None /\ features # <<>>) =>
              LET f   == Head(features)
                  own == FeatureOp(f)
              IN  IF f.position > read_position
                     THEN /\ ret' = Op("Match", f.position - read_position)
                          /\ next_op' = own
                          /\ read_position' = f.position + Advance(own)
                     ELSE /\ ret' = own
                          /\ next_op' = None
                          /\ read_position' = read_position + Advance(own)
        /\ (status = "ok" /\ next_op # None) => (ret' = next_op /\ next_op' = None)
        /\ (status = "ok" /\ next_op = None /\ features = <<>> /\ read_length < USIZE_MAX) =>
              ret' = IF read_position <= read_length
                        THEN Op("Match", read_length - read_position + 1)
                        ELSE None
      ]_vars

\* the Match(3) before the soft clip at position 4 has been yielded, the soft
\* clip itself is pending
C11_Witness ==
    /\ status = "ok" /\ all_features = TestSoftClipAtEnd /\ read_length = TestReadLength
    /\ ops = << Op("Match", 3) >> /\ next_op = Op("SoftClip", 1) /\ read_position = 5

\* the operation the claim gives a feature kind
ClaimedKinds == { "Substitution", "ReadBase", "InsertBase", "Insertion", "SoftClip",
                  "Deletion", "ReferenceSkip", "Padding", "HardClip" }
ClaimedLen(f) == IF f.kind \in {"Substitution", "ReadBase", "InsertBase"} THEN 1 ELSE f.len
ClaimedKind(f) ==
    CASE f.kind = "Substitution"  -> "Match"
      [] f.kind = "InsertBase"    -> "Insertion"
      [] f.kind = "Insertion"     -> "Insertion"
      [] f.kind = "SoftClip"      -> "SoftClip"
      [] f.kind = "Deletion"      -> "Deletion"
      [] f.kind = "ReferenceSkip" -> "Skip"
      [] f.kind = "Padding"       -> "Pad"
      [] f.kind = "HardClip"      -> "HardClip"

\* the operation of the feature taken by the last call: pending behind a gap
\* match, returned otherwise
Emitted == IF next_op # None THEN next_op ELSE ret

\* C12: the operation emitted for a feature follows from its kind:
\* Substitution, ReadBase and InsertBase give length 1 (Match for
\* Substitution, Insertion for InsertBase), Insertion and SoftClip the number
\* of bases, Deletion, ReferenceSkip, Padding and HardClip their len field.
C12_OperationByKind ==
    [][ (status = "ok" /\ next_op = None /\ features # <<>>
            /\ Head(features).kind \in ClaimedKinds) =>
              /\ status' = "ok"
              /\ Emitted'.len = ClaimedLen(Head(features))
              /\ Head(features).kind # "ReadBase" => Emitted'.kind = ClaimedKind(Head(features))
      ]_vars

\* the part of C12 that holds: every kind of the claim but ReadBase
OperationByKindButReadBase ==
    [][ (status = "ok" /\ next_op = None /\ features # <<>>
            /\ Head(features).kind \in ClaimedKinds \ {"ReadBase"}) =>
              /\ status' = "ok"
              /\ Emitted' = Op(ClaimedKind(Head(features)), ClaimedLen(Head(features)))
      ]_vars

\* C13: the cursor is moved by the lengths of the Match, Insertion and
\* SoftClip operations and by nothing else; HardClip{1, 2} on read length 4
\* gives [HardClip(2), Match(4)], SoftClip{1, 2 bases} gives
\* [SoftClip(2), Match(2)].
RECURSIVE AdvanceOf(_)
AdvanceOf(s) == IF s = <<>> THEN 0 ELSE Advance(Head(s)) + AdvanceOf(Tail(s))
C13_OnlyConsumingAdvance ==
    /\ status = "ok" =>
          read_position - PositionMin
              = AdvanceOf(ops) + (IF next_op # None THEN Advance(next_op) ELSE 0)
    /\ (all_features = TestHardClip /\ read_length = TestReadLength /\ Exhausted)
          => ops = << Op("HardClip", 2), Op("Match", 4) >>
    /\ (all_features = TestSoftClip2 /\ read_length = TestReadLength /\ Exhausted)
          => ops = << Op("SoftClip", 2), Op("Match", 2) >>

C13_Witness ==
    /\ all_features = TestHardClip /\ read_length = TestReadLength /\ Exhausted
    /\ ops = << Op("HardClip", 2), Op("Match", 4) >> /\ read_position = 5

\* C14: operations are never merged: the iterator yields at least one
\* operation per feature, SoftClip@1 of 1 base with Substitution@3 on read
\* length 4 gives [SoftClip(1), Match(1), Match(1), Match(1)] and
\* Substitution@2 gives [Match(1), Match(1), Match(2)].
C14_NeverMerges ==
    /\ status = "ok" => Len(ops) + (IF next_op # None THEN 1 ELSE 0) >= Len(Taken)
    /\ (all_features = TestSoftClipSubstitution /\ read_length = TestReadLength /\ Exhausted)
          => ops = << Op("SoftClip", 1), Op("Match", 1), Op("Match", 1), Op("Match", 1) >>
    /\ (all_features = TestSubstitution /\ read_length = TestReadLength /\ Exhausted)
          => ops = << Op("Match", 1), Op("Match", 1), Op("Match", 2) >>

C14_Witness ==
    /\ all_features = TestSoftClipSubstitution /\ read_length = TestReadLength /\ Exhausted
    /\ ops = << Op("SoftClip", 1), Op("Match", 1), Op("Match", 1), Op("Match", 1) >>

\* C15: a feature of a kind without an operation (Bases, Scores,
\* QualityScore) ends the derivation with an error reported to the caller:
\* it is not skipped and the program is not aborted.
C15_NoOperationIsError ==
    (\E n \in 1..Len(Taken) : Taken[n].kind \in {"Bases", "Scores", "QualityScore"})
        => status = "error"

\* C26: the iterator is finite and not restartable: over n features it
\* yields at most 2n + 1 operations and then returns None, no call ending in
\* anything but an operation or None, and every call after the first None
\* returns None again.
C26_FiniteNotRestartable ==
    /\ Len(ops) <= 2 * Len(all_features) + 1
    /\ calls >= 1 => ret = None
    /\ status # "panicked"

\* what holds of it: the bound on the operations, and None after None
YieldBoundAndFused ==
    /\ Len(ops) <= 2 * Len(all_features) + 1
    /\ calls >= 1 => ret = None
    /\ ret = None => (features = <<>> /\ next_op = None /\ read_position > read_length)

\* 2n + 1 operations were yielded, then None, and None again
FullYieldReached ==
    /\ Exhausted /\ calls = MaxCallsAfterNone
    /\ Len(all_features) = MaxFeatures
    /\ Len(ops) = 2 * Len(all_features) + 1

\* a call has panicked before None was ever returned
PanicBeforeNoneReached ==
    /\ status = "panicked" /\ ret # None
    /\ \E n \in 1..Len(Taken) : Taken[n].kind = "ReadBase"

\* C29: the read cursor never decreases; a feature behind the cursor is
\* yielded with no Match before it and leaves the cursor where it is (moved
\* on only by its own operation); every Match yielded for a gap or after the
\* last feature has a length of at least 1.
C29_CursorNeverDecreases ==
    [][ /\ read_position' >= read_position
        /\ (status = "ok" /\ next_op = None /\ features # <<>>
               /\ Head(features).position < read_position)
              => /\ next_op' = None
                 /\ status' = "ok"
                       => /\ ret' = FeatureOp(Head(features))
                          /\ Len(ops') = Len(ops) + 1
                          /\ read_position' = read_position + Advance(ret')
                 /\ status' # "ok" => (read_position' = read_position /\ ops' = ops)
        /\ (status = "ok" /\ status' = "ok" /\ next_op = None /\ features # <<>>
               /\ Head(features).position > read_position)
              => (ret'.kind = "Match" /\ ret'.len >= 1)
        /\ (status = "ok" /\ next_op = None /\ features = <<>> /\ ops' # ops)
              => (ret'.kind = "Match" /\ ret'.len >= 1)
      ]_vars

\* a feature behind the cursor was yielded on its own, after a gap Match and
\* before a trailing Match
C29_Witness ==
    /\ Exhausted
    /\ Len(all_features) = 2
    /\ all_features[2].position < all_features[1].position
    /\ all_features[1].position > PositionMin
    /\ Len(ops) = 4
    /\ ops[1].kind = "Match" /\ ops[3] = FeatureOp(all_features[2])
    /\ ops[4].kind = "Match" /\ ops[4].len >= 1

\* a feature behind the cursor in a list in position order: an Insertion of 2
\* bases at 1 has moved the cursor past the feature at 2
BehindInOrderReached ==
    /\ Exhausted /\ Len(all_features) = 2
    /\ all_features[1] = [kind |-> "Insertion", position |-> 1, len |-> 2]
    /\ all_features[2].position = 2
    /\ Len(ops) = 3

(***************************************************************************)
(*                          rANS 4x8 CODEC                                 *)
(*                                                                         *)
(* Bytes are 0..255, a byte stream is a sequence of bytes, u32 values are  *)
(* naturals below 2^32.  Every stream the model decodes keeps the lane     *)
(* states below 2^31 and the frequencies below 4096, so that no product    *)
(* of the decoder leaves 32 bits.                                          *)
(*                                                                         *)
(* A frequency array [u16; 256] is kept sparse: a function from the        *)
(* symbols that were assigned to their frequency; every other symbol has   *)
(* frequency 0 (the arrays are zero-initialised, order_1.rs:16).           *)
(***************************************************************************)

\* codecs/rans_4x8.rs: ALPHABET_SIZE, STATE_COUNT, LOWER_BOUND
ALPHABET_SIZE == 256
STATE_COUNT == 4
LOWER_BOUND == 8388608
\* encode/header.rs: the order tag, the compressed size and the data size
HEADER_SIZE == 9
\* the 12-bit frequency scale of the spec (and of update, encode.rs:45)
SCALE == 4096

Lanes == 0..(STATE_COUNT - 1)
EmptyTable == [x \in {} |-> 0]
Get(t, k) == IF k \in DOMAIN t THEN t[k] ELSE 0
Put(t, k, v) == [x \in DOMAIN t \cup {k} |-> IF x = k THEN v ELSE t[x]]

RECURSIVE SumOver(_, _)
SumOver(t, S) ==
    IF S = {} THEN 0
    ELSE LET k == CHOOSE x \in S : TRUE IN t[k] + SumOver(t, S \ {k})
TableSum(t) == SumOver(t, DOMAIN t)

Min(S) == CHOOSE x \in S : \A y \in S : x <= y
Max(S) == CHOOSE x \in S : \A y \in S : x >= y

RECURSIVE Reverse(_)
Reverse(s) == IF s = <<>> THEN <<>> ELSE Append(Reverse(Tail(s)), Head(s))

\* write_u32::<LittleEndian>
U32LE(x) == << x % 256, (x \div 256) % 256, (x \div 65536) % 256, (x \div 16777216) % 256 >>
\* read_u32::<LittleEndian> of the 4 bytes after position p
ReadU32LE(s, p) == s[p + 1] + 256 * s[p + 2] + 65536 * s[p + 3] + 16777216 * s[p + 4]

\* the input of the tests of encode.rs (54, 71): b"noodles"
Noodles == <<110, 111, 111, 100, 108, 101, 115>>

\* the expected bytes of the tests (encode.rs:57-62 and 74-80)
Expected0 ==
    << 0, 37, 0, 0, 0, 7, 0, 0, 0, 100, 130, 73, 101, 0,
       130, 73, 108, 130, 73, 110, 130, 73, 111, 0, 132, 146, 115, 130,
       73, 0, 226, 6, 131, 24, 116, 123, 65, 12, 43, 169, 65, 12,
       37, 49, 128, 3 >>
Expected1 ==
    << 1, 59, 0, 0, 0, 7, 0, 0, 0, 0, 100, 131, 255, 110,
       131, 255, 111, 0, 136, 1, 0, 100, 108, 143, 255, 0, 101, 0,
       115, 143, 255, 0, 108, 101, 143, 255, 0, 110, 111, 143, 255, 0,
       111, 0, 100, 135, 255, 111, 136, 0, 0, 0, 7, 132, 0, 2,
       0, 232, 255, 0, 0, 232, 255, 0, 16, 224, 0, 2 >>

(* ------------------------- the order-0 table --------------------------- *)
(* decode/order_0.rs is not part of the sources at hand.  The wire layout   *)
(* of its table is that of the spec (symbol, frequency, ..., a final 0;     *)
(* a run-length byte after a symbol that follows its predecessor), and the  *)
(* spec has the order-1 contexts "delimited the same way": the reader is    *)
(* therefore the loop of read_frequencies_1 (order_1.rs:82-105), with a     *)
(* frequency where that loop reads a table.  As there, the first symbol is  *)
(* read before the loop and is never taken for the end: the context symbol  *)
(* 0 opens the order-1 vector (encode.rs:75, byte 9), and a table that      *)
(* holds symbol 0 begins with the byte 0.  A table of no symbol at all is   *)
(* written for no input of the model.  The two expected arrays of           *)
(* encode.rs are read by it symbol for symbol (VectorTablesRead).           *)

\* decode/order_0.rs read_frequencies_0, from its second statement on: the
\* loop that reads one frequency per symbol, with the same symbol / run-length
\* continuation as order_1.rs:89-104.
\* `checked` is the build: with overflow checks (debug, tests) sym += 1 on 255
\* panics, without them (release) it wraps to 0, which ends the loop.
RECURSIVE ReadFrequencies0Loop(_, _, _, _, _, _, _)
ReadFrequencies0Loop(s, p, t, sym, last_sym, rle, checked) ==
    IF p >= Len(s) THEN [status |-> "eof", pos |-> p, table |-> t]
    ELSE LET wide == s[p + 1] >= 128
         IN  IF wide /\ p + 1 >= Len(s) THEN [status |-> "eof", pos |-> p + 1, table |-> t]
             ELSE LET f  == IF wide THEN (s[p + 1] % 128) * 256 + s[p + 2] ELSE s[p + 1]
                      p1 == IF wide THEN p + 2 ELSE p + 1
                      t1 == Put(t, sym, f)
                  IN  IF rle > 0
                         THEN IF sym + 1 >= ALPHABET_SIZE
                                 THEN IF checked
                                         THEN [status |-> "panic", pos |-> p1, table |-> t1]
                                         ELSE [status |-> "ok", pos |-> p1, table |-> t1]
                                 ELSE ReadFrequencies0Loop(s, p1, t1, sym + 1, sym + 1, rle - 1,
                                                           checked)
                         ELSE IF p1 >= Len(s) THEN [status |-> "eof", pos |-> p1, table |-> t1]
                         ELSE LET sym1 == s[p1 + 1]
                                  run  == last_sym < 255 /\ sym1 = last_sym + 1
                              IN  IF run /\ p1 + 1 >= Len(s)
                                     THEN [status |-> "eof", pos |-> p1 + 1, table |-> t1]
                                  ELSE IF sym1 = 0
                                     THEN [status |-> "ok", pos |-> p1 + 1, table |-> t1]
                                  ELSE ReadFrequencies0Loop(s, IF run THEN p1 + 2 ELSE p1 + 1, t1,
                                                            sym1, sym1, IF run THEN s[p1 + 2] ELSE 0,
                                                            checked)

\* decode/order_0.rs read_frequencies_0(reader, freqs): t is the array written to
read_frequencies_0(s, p, t, checked) ==
    IF p >= Len(s) THEN [status |-> "eof", pos |-> p, table |-> t]
    ELSE ReadFrequencies0Loop(s, p + 1, t, s[p + 1], s[p + 1], 0, checked)

\* The sum of a table the encoder writes, taken from the array the test of
\* encode.rs:57-62 expects for b"noodles": five frequencies 0x249 and one
\* 0x492.  The spec's words give 4096 for it; the expected bytes give 4095.
ENCODER_SCALE == TableSum(read_frequencies_0(Expected0, HEADER_SIZE, EmptyTable, TRUE).table)

(* ------------------------------ encoder -------------------------------- *)

\* encode.rs:34: the condition of the while loop of normalize
\* (mutant: the threshold is half of (LOWER_BOUND >> 4) * freq_i)
NormalizeContinues_HalfThreshold(x, freq_i) == x >= (LOWER_BOUND \div 32) * freq_i
NormalizeContinues(x, freq_i) == x >= (LOWER_BOUND \div 16) * freq_i

\* encode.rs:30-41
RECURSIVE normalize(_, _, _)
normalize(buf, x, freq_i) ==
    IF NormalizeContinues(x, freq_i)
        THEN normalize(Append(buf, x % 256), x \div 256, freq_i)
        ELSE [x |-> x, buf |-> buf]

\* encode.rs:43-46 (mutant: the cumulative frequency is left out)
update_NoCfreq(x, freq_i, cfreq_i) == (x \div freq_i) * 4096 + (x % freq_i)
update(x, freq_i, cfreq_i) == (x \div freq_i) * 4096 + (x % freq_i) + cfreq_i

\* encode.rs:19-28
write_states(sts) == U32LE(sts[0]) \o U32LE(sts[1]) \o U32LE(sts[2]) \o U32LE(sts[3])

\* encode/order_0.rs build_frequencies: the count of every symbol of src
Count(s, b) == Cardinality({ jx \in 1..Len(s) : s[jx] = b })
build_frequencies(s) == [ b \in { s[jx] : jx \in 1..Len(s) } |-> Count(s, b) ]

\* encode/order_0.rs normalize_frequencies (not part of the sources at hand):
\* the counts of a non-empty input scaled to a fixed sum, never below 1, the
\* rounding difference given to the last symbol with the largest count.  The
\* sum is the one of the expected arrays of encode.rs, ENCODER_SCALE; scaled
\* to the 4096 of the spec's words the counts of b"noodles" give another
\* table than the one the test expects (VectorsFixTheScale).
\* (variant: the counts are scaled to SCALE)
normalize_frequencies_ToScale(F) ==
    LET sum   == TableSum(F)
        big   == Max({ F[b] : b \in DOMAIN F })
        maxi  == Max({ b \in DOMAIN F : F[b] = big })
        scaled == [ b \in DOMAIN F |->
                      LET n == (F[b] * SCALE) \div sum
                      IN  IF n = 0 THEN 1 ELSE n ]
        nsum  == TableSum(scaled)
    IN  [ scaled EXCEPT ![maxi] = scaled[maxi] + SCALE - nsum ]
normalize_frequencies(F) ==
    LET sum   == TableSum(F)
        big   == Max({ F[b] : b \in DOMAIN F })
        maxi  == Max({ b \in DOMAIN F : F[b] = big })
        scaled == [ b \in DOMAIN F |->
                      LET n == (F[b] * ENCODER_SCALE) \div sum
                      IN  IF n = 0 THEN 1 ELSE n ]
        nsum  == TableSum(scaled)
    IN  [ scaled EXCEPT ![maxi] = scaled[maxi] + ENCODER_SCALE - nsum ]

\* order_0::build_cumulative_frequencies: entry s is the sum of the
\* frequencies of the symbols below s
Cum(t, s) == SumOver(t, { k \in DOMAIN t : k < s })

\* one frequency, as 1 byte below 0x80 and as 2 bytes from there on
WriteFreq(f) == IF f < 128 THEN <<f>> ELSE << (f \div 256) + 128, f % 256 >>

\* the run length written after a symbol that follows its predecessor: the
\* number of present symbols directly after sym
RECURSIVE RunAfter(_, _)
RunAfter(present, sym) ==
    IF sym + 1 \in present THEN 1 + RunAfter(present, sym + 1) ELSE 0

\* The run-length layout shared by write_frequencies and write_contexts:
\* walks the present symbols from `sym` on and gives, for each, the bytes
\* written before its entry (its symbol byte and, when its predecessor is
\* present too, the length of the run that follows it; nothing inside a run).
RECURSIVE RunLayout(_, _, _)
RunLayout(present, sym, rle) ==
    IF sym >= ALPHABET_SIZE THEN <<>>
    ELSE LET later == { b \in present : b > sym }
             next  == IF later = {} THEN ALPHABET_SIZE ELSE Min(later)
         IN  IF rle > 0 THEN << <<sym, <<>> >> >> \o RunLayout(present, next, rle - 1)
             ELSE IF sym > 0 /\ (sym - 1) \in present
                     THEN LET n == RunAfter(present, sym)
                          IN  << <<sym, <<sym, n>> >> >> \o RunLayout(present, next, n)
                     ELSE << <<sym, <<sym>> >> >> \o RunLayout(present, next, 0)
Layout(present) == RunLayout(present, IF present = {} THEN ALPHABET_SIZE ELSE Min(present), 0)

RECURSIVE Concat(_)
Concat(ss) == IF ss = <<>> THEN <<>> ELSE Head(ss) \o Concat(Tail(ss))

\* encode/order_0.rs write_frequencies
write_frequencies(t) ==
    LET lay == Layout({ b \in DOMAIN t : t[b] > 0 })
    IN  Concat([ jx \in 1..Len(lay) |-> lay[jx][2] \o WriteFreq(t[lay[jx][1]]) ]) \o <<0>>

\* encode/order_1.rs write_contexts
write_contexts(T) ==
    LET lay == Layout({ c \in DOMAIN T : TableSum(T[c]) > 0 })
    IN  Concat([ jx \in 1..Len(lay) |-> lay[jx][2] \o write_frequencies(T[lay[jx][1]]) ]) \o <<0>>

\* encode/header.rs write_header
write_header(ord, compressed_size, data_size) ==
    <<ord>> \o U32LE(compressed_size) \o U32LE(data_size)

\* One symbol pushed on a lane: normalize, then update (order_0.rs / order_1.rs)
EncodeSymbol(e, k, freq_i, cfreq_i) ==
    LET n == normalize(e.buf, e.states[k], freq_i)
    IN  [ states |-> [e.states EXCEPT ![k] = update(n.x, freq_i, cfreq_i)], buf |-> n.buf ]

\* the encoder's start: every lane at LOWER_BOUND, nothing flushed
EncoderStart == [ states |-> [k \in Lanes |-> LOWER_BOUND], buf |-> <<>> ]

\* push the symbols `todo` (a sequence of <<lane, context, symbol>>) in order
RECURSIVE EncodeAll(_, _, _)
EncodeAll(e, todo, T) ==
    IF todo = <<>> THEN e
    ELSE LET h == Head(todo)
             t == T[h[2]]
         IN  EncodeAll(EncodeSymbol(e, h[1], t[h[3]], Cum(t, h[3])), Tail(todo), T)

\* states, header, tables and the flushed bytes in reverse
Serialize(ord, s, tables, e) ==
    LET body == tables \o write_states(e.states) \o Reverse(e.buf)
    IN  write_header(ord, Len(body), Len(s)) \o body

\* encode/order_0.rs encode: the source in reverse, symbol ix on lane ix % 4
encode_0(s) ==
    LET T    == [c \in {0} |-> normalize_frequencies(build_frequencies(s))]
        todo == [ jx \in 1..Len(s) |->
                    LET ix == Len(s) - jx IN << ix % STATE_COUNT, 0, s[ix + 1] >> ]
    IN  Serialize(0, s, write_frequencies(T[0]), EncodeAll(EncoderStart, todo, T))

\* encode/order_1.rs build_contexts: context 0 counts the first symbol of
\* each quarter, context a counts every symbol that follows an a
build_contexts(s) ==
    LET quarter == Len(s) \div STATE_COUNT
        starts  == [ k \in 1..STATE_COUNT |-> s[(k - 1) * quarter + 1] ]
        follow(a) == { s[ix + 1] : ix \in { ix \in 1..(Len(s) - 1) : s[ix] = a } }
        cnt(a, b) == Cardinality({ ix \in 1..(Len(s) - 1) : s[ix] = a /\ s[ix + 1] = b })
                     + (IF a = 0 THEN Count(starts, b) ELSE 0)
        succ(a)  == follow(a) \cup (IF a = 0 THEN { starts[k] : k \in 1..STATE_COUNT } ELSE {})
        ctxs     == { a \in {0} \cup { s[ix] : ix \in 1..Len(s) } : succ(a) # {} }
    IN  [ a \in ctxs |-> [ b \in succ(a) |-> cnt(a, b) ] ]

\* encode/order_1.rs encode.  Inputs shorter than 4 bytes are encoded with
\* order 0.  The symbols are pushed in this order: the remainder on lane 3
\* backwards, then the quarters backwards in lock step (lane 3 first), then
\* the first symbol of each quarter in context 0.
encode_1(s) ==
    IF Len(s) < STATE_COUNT THEN encode_0(s)
    ELSE LET quarter == Len(s) \div STATE_COUNT
             T == LET F == build_contexts(s)
                  IN  [ c \in DOMAIN F |-> normalize_frequencies(F[c]) ]
             nrem == Len(s) - STATE_COUNT * quarter
             remainder == [ jx \in 1..nrem |->
                              LET ix == Len(s) - jx IN << 3, s[ix], s[ix + 1] >> ]
             main == [ jx \in 1..(STATE_COUNT * (quarter - 1)) |->
                         LET n == (quarter - 2) - ((jx - 1) \div STATE_COUNT)
                             k == 3 - ((jx - 1) % STATE_COUNT)
                         IN  << k, s[k * quarter + n + 1], s[k * quarter + n + 2] >> ]
             first == [ jx \in 1..STATE_COUNT |->
                         LET k == STATE_COUNT - jx IN << k, 0, s[k * quarter + 1] >> ]
         IN  Serialize(1, s, write_contexts(T),
                       EncodeAll(EncoderStart, remainder \o main \o first, T))

\* encode.rs:12-17
encode(ord, s) == IF ord = 0 THEN encode_0(s) ELSE encode_1(s)

(* ------------------------------ decoder -------------------------------- *)

\* decode.rs rans_get_cumulative_freq: the low 12 bits of the state
rans_get_cumulative_freq(r) == r % 4096

\* decode.rs rans_advance_step(r, f, g), called with the frequency f and the
\* cumulative frequency g of the decoded symbol (order_1.rs:45-49)
\* (mutant: the cumulative frequency is not taken off)
rans_advance_step_KeepCum(r, f, g) == f * (r \div 4096) + (r % 4096)
rans_advance_step(r, f, g) == f * (r \div 4096) + (r % 4096) - g

\* decode.rs rans_renorm: one byte at a time into the low 8 bits while the
\* state is below LOWER_BOUND; a missing byte is UnexpectedEof.
RECURSIVE rans_renorm(_, _, _)
rans_renorm(s, p, r) ==
    IF r >= LOWER_BOUND THEN [r |-> r, pos |-> p, ok |-> TRUE]
    ELSE IF p >= Len(s) THEN [r |-> r, pos |-> p, ok |-> FALSE]
    ELSE rans_renorm(s, p + 1, r * 256 + s[p + 1])

\* decode.rs read_states: read_u32_into::<LittleEndian> of 4 states
read_states(s, p) ==
    IF p + 4 * STATE_COUNT > Len(s)
        THEN [status |-> "eof", pos |-> Len(s), states |-> [k \in Lanes |-> 0]]
        ELSE [status |-> "ok", pos |-> p + 4 * STATE_COUNT,
              states |-> [k \in Lanes |-> ReadU32LE(s, p + 4 * k)]]

\* order_1.rs:86-105: the loop of read_frequencies_1
RECURSIVE ReadFrequencies1Loop(_, _, _, _, _, _, _)
ReadFrequencies1Loop(s, p, F, sym, last_sym, rle, checked) ==
    LET t == read_frequencies_0(s, p, IF sym \in DOMAIN F THEN F[sym] ELSE EmptyTable, checked)
        F1 == Put(F, sym, t.table)
    IN  IF t.status # "ok" THEN [status |-> t.status, pos |-> t.pos, freqs |-> F1]
        ELSE IF rle > 0
            THEN IF sym + 1 >= ALPHABET_SIZE
                    THEN \* order_1.rs:91: sym += 1 on 255
                         IF checked
                            THEN [status |-> "panic", pos |-> t.pos, freqs |-> F1]
                            ELSE [status |-> "ok", pos |-> t.pos, freqs |-> F1]
                    ELSE ReadFrequencies1Loop(s, t.pos, F1, sym + 1, sym + 1, rle - 1, checked)
        ELSE IF t.pos >= Len(s) THEN [status |-> "eof", pos |-> t.pos, freqs |-> F1]
        ELSE LET sym1 == s[t.pos + 1]
                 run  == last_sym < 255 /\ sym1 = last_sym + 1
             IN  IF run /\ t.pos + 1 >= Len(s)
                    THEN [status |-> "eof", pos |-> t.pos + 1, freqs |-> F1]
                 ELSE IF sym1 = 0
                    THEN [status |-> "ok", pos |-> t.pos + 1, freqs |-> F1]
                 ELSE ReadFrequencies1Loop(s, IF run THEN t.pos + 2 ELSE t.pos + 1, F1,
                                           sym1, sym1, IF run THEN s[t.pos + 2] ELSE 0, checked)

\* order_1.rs:78-108, from the first context symbol (line 82) on
read_frequencies_1(s, p, checked) ==
    IF p >= Len(s) THEN [status |-> "eof", pos |-> p, freqs |-> EmptyTable]
    ELSE ReadFrequencies1Loop(s, p + 1, EmptyTable, s[p + 1], s[p + 1], 0, checked)

\* the frequency array of context c (all zero when never written)
Context(F, c) == IF c \in DOMAIN F THEN F[c] ELSE EmptyTable

\* order_0::build_cumulative_freqs_symbols_table_0, entry f: the first symbol
\* whose cumulative range ends above f, and symbol 255 when there is none
cumulative_freqs_symbol(t, f) ==
    LET above == { b \in DOMAIN t : f < Cum(t, b) + t[b] }
    IN  IF above = {} THEN ALPHABET_SIZE - 1 ELSE Min(above)

\* order_1.rs:40-52 (and 60-72): one symbol of a lane whose state is r and
\* whose previous symbol is last_sym.  sym is written to the output and r1 to
\* the state before the renormalization can fail.
\* (mutant: a failed renormalization read is not propagated)
DecodeSymbol_IgnoreEof(s, p, F, r, last_sym) ==
    LET t   == Context(F, last_sym)
        f   == rans_get_cumulative_freq(r)
        sym == cumulative_freqs_symbol(t, f)
        r1  == rans_advance_step(r, Get(t, sym), Cum(t, sym))
        n   == rans_renorm(s, p, r1)
    IN  [sym |-> sym, r |-> n.r, advanced |-> r1, pos |-> n.pos, ok |-> TRUE,
         zero |-> Get(t, sym) = 0, ctx |-> last_sym]
\* (mutant: every symbol is looked up in the table of context 0)
DecodeSymbol_Context0(s, p, F, r, last_sym) ==
    LET t   == Context(F, 0)
        f   == rans_get_cumulative_freq(r)
        sym == cumulative_freqs_symbol(t, f)
        r1  == rans_advance_step(r, Get(t, sym), Cum(t, sym))
        n   == rans_renorm(s, p, r1)
    IN  [sym |-> sym, r |-> n.r, advanced |-> r1, pos |-> n.pos, ok |-> n.ok,
         zero |-> Get(t, sym) = 0, ctx |-> 0]
DecodeSymbol(s, p, F, r, last_sym) ==
    LET t   == Context(F, last_sym)
        f   == rans_get_cumulative_freq(r)
        sym == cumulative_freqs_symbol(t, f)
        r1  == rans_advance_step(r, Get(t, sym), Cum(t, sym))
        n   == rans_renorm(s, p, r1)
    IN  [sym |-> sym, r |-> n.r, advanced |-> r1, pos |-> n.pos, ok |-> n.ok,
         zero |-> Get(t, sym) = 0, ctx |-> last_sym]

(* --------------------------- the state machine -------------------------- *)

\* ---- bounds of the model: the inputs given to encode ----
\* Every input has at least one byte: what encode writes for the empty
\* buffer, and what decode makes of it, is in files that are not part of the
\* sources at hand, and neither the spec nor a test gives the bytes.
MaxLen == 5
SmallAlphabet == {0, 1, 255}
SmallInputs == UNION { [1..n -> SmallAlphabet] : n \in 1..MaxLen }
\* inputs long and varied enough for the lanes to flush and read bytes
Distinct12 == <<1, 2, 3, 4, 5, 6, 7, 8, 9, 10, 11, 12>>
Mixed20 == <<2, 1, 2, 1, 2, 3, 3, 3, 1, 2, 1, 3, 2, 3, 3, 3, 2, 3, 1, 1>>
Inputs == SmallInputs \cup {Noodles, Distinct12, Mixed20}

\* ---- what may happen to the bytes between encode and decode ----
NoTamper == [kind |-> "none", at |-> 0, lane |-> 0, value |-> 0]
\* the stream cut to its first `at` bytes
Truncations(e) == { [kind |-> "truncate", at |-> n, lane |-> 0, value |-> 0] : n \in 0..(Len(e) - 1) }
\* the initial state of one lane overwritten, and 3 bytes added at the end
TamperedStates == {0, LOWER_BOUND + 4095}
Padding3 == <<128, 0, 0>>
\* the data size of the header overwritten: an output shorter or longer than
\* the input that was encoded
TamperedSizes == {1, 2, 3, 5}
SizeTampers == { [kind |-> "size", at |-> 0, lane |-> 0, value |-> v] : v \in TamperedSizes }
StateTampers == { [kind |-> "state", at |-> 0, lane |-> k, value |-> v] : k \in Lanes, v \in TamperedStates }

\* where the 4 states start in an encoded stream (the encoder announces no
\* run past symbol 255, so the build makes no difference here)
StatesOffset(e) ==
    IF e[1] = 0 THEN read_frequencies_0(e, HEADER_SIZE, EmptyTable, TRUE).pos
                ELSE read_frequencies_1(e, HEADER_SIZE, TRUE).pos

Tampered(e, t) ==
    CASE t.kind = "none"     -> e
      [] t.kind = "truncate" -> SubSeq(e, 1, t.at)
      [] t.kind = "state"    ->
            LET off == StatesOffset(e) + 4 * t.lane
            IN  [ x \in 1..Len(e) |->
                    IF x > off /\ x <= off + 4 THEN U32LE(t.value)[x - off] ELSE e[x] ] \o Padding3
      [] t.kind = "size"     ->
            [ x \in 1..Len(e) |-> IF x > 5 /\ x <= 9 THEN U32LE(t.value)[x - 5] ELSE e[x] ]

\* order_1.rs:27 (mutant: the chunks are rounded up)
chunk_size_RoundedUp == (Len(dst) + STATE_COUNT - 1) \div STATE_COUNT
chunk_size == Len(dst) \div STATE_COUNT

\* the Cigar variables while the codec is exercised
CigarIdle ==
    /\ features = <<>> /\ all_features = <<>> /\ read_length = 0
    /\ read_position = PositionMin /\ next_op = None /\ ops = <<>>
    /\ ret = NotCalled /\ calls = 0 /\ status = "idle"

RansStart ==
    /\ encoded = <<>> /\ stream = <<>> /\ tamper = NoTamper
    /\ pc = "encode" /\ pos = 0 /\ dorder = 0 /\ freqs = EmptyTable
    /\ states = [k \in Lanes |-> 0] /\ last_syms = [k \in Lanes |-> 0]
    /\ dst = <<>> /\ i = 0 /\ lane = 0 /\ rem_r = 0 /\ rem_last_sym = 0 /\ rem_count = 0
    /\ idx = [k \in Lanes |-> 0]
    /\ zero_hit = FALSE /\ reads = <<>> /\ steps = 0 /\ writes = <<>>

Init ==
    /\ CoderIdle
    /\ CigarIdle
    /\ IoIdle
    /\ order \in {0, 1}
    /\ src \in Inputs
    /\ RansStart

\* the caller encodes src (encode.rs:12-17)
Encode ==
    /\ pc = "encode"
    /\ encoded' = encode(order, src)
    /\ pc' = "tamper"
    /\ UNCHANGED <<coder, cigar_vars, io_vars, order, src, tamper, stream, pos, dorder, freqs, states,
                   last_syms, dst, i, lane, rem_r, rem_last_sym, rem_count, idx,
                   zero_hit, reads, steps, writes>>

\* the bytes reach the reader intact, cut short, with one state changed or
\* (order 1) with another data size
Tamper ==
    /\ pc = "tamper"
    /\ \E t \in {NoTamper} \cup Truncations(encoded) \cup StateTampers
                \cup (IF encoded[1] = 1 THEN SizeTampers ELSE {}) :
          /\ tamper' = t
          /\ stream' = Tampered(encoded, t)
    /\ pc' = "header"
    /\ UNCHANGED <<coder, cigar_vars, io_vars, order, src, encoded, pos, dorder, freqs, states,
                   last_syms, dst, i, lane, rem_r, rem_last_sym, rem_count, idx,
                   zero_hit, reads, steps, writes>>

\* decode.rs decode / read_header: the order tag, the compressed size (not
\* used) and the data size, which is the length of the output buffer
ReadHeader ==
    /\ pc = "header"
    /\ IF Len(stream) < HEADER_SIZE
          THEN /\ pc' = "eof"
               /\ pos' = Len(stream)
               /\ UNCHANGED <<dorder, dst>>
          ELSE IF stream[1] \notin {0, 1}
          THEN /\ pc' = "invalid"
               /\ pos' = 1
               /\ UNCHANGED <<dorder, dst>>
          ELSE /\ pc' = "freqs"
               /\ pos' = HEADER_SIZE
               /\ dorder' = stream[1]
               /\ dst' = [ x \in 1..ReadU32LE(stream, 5) |-> 0 ]
    /\ UNCHANGED <<coder, cigar_vars, io_vars, order, src, encoded, tamper, stream, freqs, states,
                   last_syms, i, lane, rem_r, rem_last_sym, rem_count, idx,
                   zero_hit, reads, steps, writes>>

\* order_1.rs:16-17 (order 1) and order_0.rs decode (order 0)
ReadFrequencies ==
    /\ pc = "freqs"
    /\ \E checked \in BOOLEAN :
       LET res == IF dorder = 0
                     THEN LET t == read_frequencies_0(stream, pos, EmptyTable, checked)
                          IN  [status |-> t.status, pos |-> t.pos,
                               freqs |-> Put(EmptyTable, 0, t.table)]
                     ELSE read_frequencies_1(stream, pos, checked)
       IN  /\ freqs' = res.freqs
           /\ pos' = res.pos
           /\ pc' = IF res.status = "ok" THEN "states" ELSE res.status
    /\ UNCHANGED <<coder, cigar_vars, io_vars, order, src, encoded, tamper, stream, dorder, states,
                   last_syms, dst, i, lane, rem_r, rem_last_sym, rem_count, idx,
                   zero_hit, reads, steps, writes>>

\* order_1.rs:24-36
ReadStates ==
    /\ pc = "states"
    /\ LET res == read_states(stream, pos)
       IN  /\ pos' = res.pos
           /\ states' = res.states
           /\ pc' = IF res.status # "ok" THEN "eof"
                    ELSE IF dorder = 0 THEN "loop0" ELSE "loop"
    /\ last_syms' = [k \in Lanes |-> 0]
    /\ i' = 0
    /\ lane' = 0
    /\ UNCHANGED <<coder, cigar_vars, io_vars, order, src, encoded, tamper, stream, dorder, freqs,
                   dst, rem_r, rem_last_sym, rem_count, idx, zero_hit, reads, steps, writes>>

\* what a decoded symbol leaves behind in the observation variables
Observed(d, k, at) ==
    /\ zero_hit' = (zero_hit \/ d.zero)
    /\ reads' = reads \o [ n \in 1..(d.pos - pos) |-> k ]
    /\ steps' = IF d.ok THEN steps + 1 ELSE steps
    /\ writes' = Append(writes, [lane |-> k, at |-> at, ctx |-> d.ctx, sym |-> d.sym])

\* order_1.rs:38-54: one pass of the inner loop, for lane `lane` at index i
Step ==
    /\ pc = "loop"
    /\ i < chunk_size
    /\ LET d == DecodeSymbol(stream, pos, freqs, states[lane], last_syms[lane])
       IN  /\ dst' = [dst EXCEPT ![lane * chunk_size + i + 1] = d.sym]
           /\ pos' = d.pos
           /\ Observed(d, lane, lane * chunk_size + i)
           /\ IF d.ok
                 THEN /\ states' = [states EXCEPT ![lane] = d.r]
                      /\ last_syms' = [last_syms EXCEPT ![lane] = d.sym]
                      /\ lane' = (lane + 1) % STATE_COUNT
                      /\ i' = IF lane = STATE_COUNT - 1 THEN i + 1 ELSE i
                      /\ pc' = "loop"
                 ELSE /\ states' = [states EXCEPT ![lane] = d.advanced]
                      /\ pc' = "eof"
                      /\ UNCHANGED <<last_syms, lane, i>>
    /\ UNCHANGED <<coder, cigar_vars, io_vars, order, src, encoded, tamper, stream, dorder, freqs,
                   rem_r, rem_last_sym, rem_count, idx>>

\* order_1.rs:56-57: lane 3's state and last symbol are copied for the remainder
EnterRemainder ==
    /\ pc = "loop"
    /\ i >= chunk_size
    /\ rem_r' = states[3]
    /\ rem_last_sym' = last_syms[3]
    /\ rem_count' = 0
    /\ pc' = "remainder"
    /\ UNCHANGED <<coder, cigar_vars, io_vars, order, src, encoded, tamper, stream, pos, dorder, freqs,
                   states, last_syms, dst, i, lane, idx, zero_hit, reads, steps, writes>>

\* order_1.rs:59-73: one byte of the remainder
StepRemainder ==
    /\ pc = "remainder"
    /\ rem_count < Len(dst) - STATE_COUNT * chunk_size
    /\ LET d == DecodeSymbol(stream, pos, freqs, rem_r, rem_last_sym)
       IN  /\ dst' = [dst EXCEPT ![STATE_COUNT * chunk_size + rem_count + 1] = d.sym]
           /\ pos' = d.pos
           /\ Observed(d, 3, STATE_COUNT * chunk_size + rem_count)
           /\ IF d.ok
                 THEN /\ rem_r' = d.r
                      /\ rem_last_sym' = d.sym
                      /\ rem_count' = rem_count + 1
                      /\ pc' = "remainder"
                 ELSE /\ rem_r' = d.advanced
                      /\ pc' = "eof"
                      /\ UNCHANGED <<rem_last_sym, rem_count>>
    /\ UNCHANGED <<coder, cigar_vars, io_vars, order, src, encoded, tamper, stream, dorder, freqs,
                   states, last_syms, i, lane, idx>>

\* order_1.rs:75
Finish ==
    /\ pc = "remainder"
    /\ rem_count >= Len(dst) - STATE_COUNT * chunk_size
    /\ pc' = "ok"
    /\ UNCHANGED <<coder, cigar_vars, io_vars, order, src, encoded, tamper, stream, pos, dorder, freqs,
                   states, last_syms, dst, i, lane, rem_r, rem_last_sym, rem_count, idx,
                   zero_hit, reads, steps, writes>>

\* decode/order_0.rs decode (not part of the sources at hand): output byte i
\* is produced by lane i % 4, from the one table.  The spec has decode
\* reproduce b"noodles" from the array of encode.rs:57-62, and that array
\* gives b"noodles" with the lanes taken in turn and other bytes with the
\* chunks of order_1.rs:27-36 (OrderZeroVectorIsInterleaved).
Step0 ==
    /\ pc = "loop0"
    /\ i < Len(dst)
    /\ LET k == i % STATE_COUNT
           d == DecodeSymbol(stream, pos, freqs, states[k], 0)
       IN  /\ dst' = [dst EXCEPT ![i + 1] = d.sym]
           /\ pos' = d.pos
           /\ Observed(d, k, i)
           /\ IF d.ok
                 THEN /\ states' = [states EXCEPT ![k] = d.r]
                      /\ i' = i + 1
                      /\ pc' = "loop0"
                 ELSE /\ states' = [states EXCEPT ![k] = d.advanced]
                      /\ pc' = "eof"
                      /\ UNCHANGED i
    /\ UNCHANGED <<coder, cigar_vars, io_vars, order, src, encoded, tamper, stream, dorder, freqs,
                   last_syms, lane, rem_r, rem_last_sym, rem_count, idx>>

Finish0 ==
    /\ pc = "loop0"
    /\ i >= Len(dst)
    /\ pc' = "ok"
    /\ UNCHANGED <<coder, cigar_vars, io_vars, order, src, encoded, tamper, stream, pos, dorder, freqs,
                   states, last_syms, dst, i, lane, rem_r, rem_last_sym, rem_count, idx,
                   zero_hit, reads, steps, writes>>

Next ==
    \/ Encode \/ Tamper \/ ReadHeader \/ ReadFrequencies \/ ReadStates
    \/ Step \/ EnterRemainder \/ StepRemainder \/ Finish
    \/ Step0 \/ Finish0

Spec == Init /\ [][Next]_vars

(* ---------------- order_1.rs on its own: SpecOrder1 -------------------- *)
(* The streams of order 1 only, so that every step of decode is a line of  *)
(* order_1.rs:12-76: inputs of at least 4 bytes, intact, cut short, with a *)
(* state changed or with another data size.                                *)
InitOrder1 ==
    /\ CoderIdle
    /\ CigarIdle
    /\ IoIdle
    /\ order = 1
    /\ src \in { s \in Inputs : Len(s) >= STATE_COUNT }
    /\ RansStart

NextOrder1 ==
    \/ Encode \/ Tamper \/ ReadHeader \/ ReadFrequencies \/ ReadStates
    \/ Step \/ EnterRemainder \/ StepRemainder \/ Finish

SpecOrder1 == InitOrder1 /\ [][NextOrder1]_vars

(* ------------- order_1.rs on the array of its test: SpecVector --------- *)
(* decode is given the 68 bytes that test_encode_with_order_1 expects      *)
(* (encode.rs:74-80), as they stand or with one frequency of a table       *)
(* lowered.                                                                 *)

\* where the low bytes of the 2-byte frequencies of Expected1 are (counted
\* from 1), the frequency 0x800 at 49-50 left out
VectorFrequencyBytes == {13, 16, 20, 25, 31, 36, 41, 47}
LoweredBytes == {0, 1, 254}
TableTampers ==
    { [kind |-> "table", at |-> p, lane |-> 0, value |-> v] :
        p \in VectorFrequencyBytes, v \in LoweredBytes }
LoweredTable(e, t) == [ x \in 1..Len(e) |-> IF x = t.at THEN t.value ELSE e[x] ]

InitVector ==
    /\ CoderIdle
    /\ CigarIdle
    /\ IoIdle
    /\ order = 1 /\ src = Noodles /\ encoded = Expected1
    /\ \E t \in {NoTamper} \cup { t \in TableTampers : t.value < Expected1[t.at] } :
          /\ tamper = t
          /\ stream = IF t.kind = "table" THEN LoweredTable(Expected1, t) ELSE Expected1
    /\ pc = "header" /\ pos = 0 /\ dorder = 0 /\ freqs = EmptyTable
    /\ states = [k \in Lanes |-> 0] /\ last_syms = [k \in Lanes |-> 0]
    /\ dst = <<>> /\ i = 0 /\ lane = 0 /\ rem_r = 0 /\ rem_last_sym = 0 /\ rem_count = 0
    /\ idx = [k \in Lanes |-> 0]
    /\ zero_hit = FALSE /\ reads = <<>> /\ steps = 0 /\ writes = <<>>

NextVector ==
    \/ ReadHeader \/ ReadFrequencies \/ ReadStates
    \/ Step \/ EnterRemainder \/ StepRemainder \/ Finish

SpecVector == InitVector /\ [][NextVector]_vars

\* decode has returned
DecodeReturned == pc \in {"ok", "eof", "invalid", "panic"}

(***************************************************************************)
(*                             PROPERTIES                                  *)

\* ---- the writes of the decoder ----
Decoding == pc \in {"loop", "remainder", "loop0", "ok", "eof"}
\* the indexes the claim gives lane k of an output of n bytes
LaneRange(n, k) ==
    LET c == n \div 4
    IN  IF k < 3 THEN { x \in 0..(n - 1) : k * c <= x /\ x < (k + 1) * c }
                 ELSE { x \in 0..(n - 1) : 3 * c <= x }
WritesOf(k) == { j \in DOMAIN writes : writes[j].lane = k }
WrittenOnce ==
    /\ \A j, m \in DOMAIN writes : writes[j].at = writes[m].at => j = m
    /\ \A j \in DOMAIN writes : writes[j].at \in 0..(Len(dst) - 1)
    /\ pc = "ok" => Len(writes) = Len(dst)

\* C22: in the decode of order_1.rs lanes 0, 1 and 2 write the ranges [0,c),
\* [c,2c), [2c,3c) with c = floor(n/4) and lane 3 writes [3c,n); every index
\* is written exactly once and exactly n bytes are produced.
C22_OutputPartition ==
    Decoding =>
        /\ WrittenOnce
        /\ \A j \in DOMAIN writes : writes[j].at \in LaneRange(Len(dst), writes[j].lane)

\* C22 witness: the order-1 decoder has produced 7 bytes, lane 3 the last 4
C22_Witness ==
    /\ pc = "ok" /\ dorder = 1 /\ Len(dst) = 7
    /\ { writes[j].at : j \in WritesOf(3) } = {3, 4, 5, 6}
    /\ { writes[j].at : j \in WritesOf(0) } = {0}

\* the order-1 decoder has produced an output shorter than 4 bytes, all of
\* it by lane 3
ShortOutputReached ==
    /\ pc = "ok" /\ dorder = 1 /\ Len(dst) = 3
    /\ WritesOf(3) = DOMAIN writes /\ Len(writes) = 3

\* the symbol lane k produced before its write j, 0 when there is none
PreviousSymbol(j) ==
    LET earlier == { m \in WritesOf(writes[j].lane) : m < j }
    IN  IF earlier = {} THEN 0 ELSE writes[Max(earlier)].sym

\* C23: in the order-1 decoder each lane starts with context 0 and looks
\* every symbol up in the table of the symbol the same lane produced before,
\* lane 3 going on in the remainder from where the interleaved loop left it.
C23_ContextIsOwnLastSymbol ==
    (Decoding /\ dorder = 1) =>
        \A j \in DOMAIN writes : writes[j].ctx = PreviousSymbol(j)

\* C23 witness: a lane has decoded a symbol in the context of its own last
\* symbol, which is not the symbol the lane before it has just produced
C23_Witness ==
    /\ pc = "ok" /\ dorder = 1 /\ tamper.kind = "none"
    /\ \E j \in WritesOf(1) :
          /\ writes[j].ctx # 0
          /\ writes[j - 1].lane = 0
          /\ writes[j].ctx # writes[j - 1].sym

\* lane 3 has decoded the first remainder byte in the context of its symbol
\* of the interleaved loop
RemainderContextReached ==
    /\ pc = "ok" /\ dorder = 1 /\ tamper.kind = "none" /\ src = Noodles
    /\ \E j \in WritesOf(3) : writes[j].at = 4 /\ writes[j].ctx = src[4]

(***************************************************************************)

\* the decoder is inside the symbol loop of either order
InLoop == pc \in {"loop", "remainder", "loop0"}

\* lane state x lies in [LOWER_BOUND, LOWER_BOUND * 256)
InStateRange(x) == x >= LOWER_BOUND /\ x \div 256 < LOWER_BOUND

\* the tables decode holds that have an entry
ReadTables == { c \in DOMAIN freqs : TableSum(freqs[c]) # 0 }

\* decode(encode(order, b)) returns Ok with exactly the bytes b, for both
\* orders and every buffer b of at least one byte, buffers shorter than four
\* bytes included
RoundTripNonEmpty ==
    (tamper.kind = "none" /\ DecodeReturned) => (pc = "ok" /\ dst = src)

\* a buffer of 3 bytes has gone through encode and decode of order 1
ShortRoundTripReached ==
    /\ tamper.kind = "none" /\ order = 1 /\ Len(src) = 3 /\ pc = "ok" /\ dst = src

\* the table decode has read from an intact stream of order 0 is the table
\* encode has written, also when it begins with symbol 0
TableReadIsTableWritten ==
    (tamper.kind = "none" /\ dorder = 0 /\ pc \in {"states", "loop0", "ok"})
        => freqs = Put(EmptyTable, 0, normalize_frequencies(build_frequencies(src)))

SymbolZeroTableReached ==
    /\ tamper.kind = "none" /\ dorder = 0 /\ pc = "ok" /\ 0 \in DOMAIN freqs[0]
    /\ stream[HEADER_SIZE + 1] = 0

\* read_frequencies_0 reads the tables of both expected arrays of encode.rs
\* symbol for symbol, up to the 4 states
VectorTablesRead ==
    /\ LET t == read_frequencies_0(Expected0, HEADER_SIZE, EmptyTable, TRUE)
       IN  /\ t.status = "ok" /\ t.pos = Len(Expected0) - 4 * STATE_COUNT
           /\ DOMAIN t.table = {100, 101, 108, 110, 111, 115}
           /\ \A b \in DOMAIN t.table : t.table[b] = IF b = 111 THEN 1170 ELSE 585
    /\ LET F == read_frequencies_1(Expected1, HEADER_SIZE, TRUE)
       IN  /\ F.status = "ok" /\ F.pos = Len(Expected1) - 4 * STATE_COUNT
           /\ DOMAIN F.freqs = {0, 100, 101, 108, 110, 111}
           /\ F.freqs[0][111] = 2049 /\ F.freqs[111][100] = 2047

\* the expected table of encode.rs:57-62 is the counts of b"noodles" scaled
\* to 4095, and is not what scaling them to 4096 gives
VectorsFixTheScale ==
    LET F == build_frequencies(Noodles)
        written == SubSeq(Expected0, HEADER_SIZE + 1, Len(Expected0) - 4 * STATE_COUNT)
    IN  /\ ENCODER_SCALE = 4095
        /\ write_frequencies(normalize_frequencies(F)) = written
        /\ write_frequencies(normalize_frequencies_ToScale(F)) # written

\* C2: for every feature list, the lengths of the read-consuming operations
\* the iterator yielded add up to the read length once it is exhausted.
C2_TotalLength ==
    Exhausted => ReadConsumed(ops) = read_length

\* what the operations do add up to: the distance the cursor has moved
ReadConsumedIsCursor ==
    status = "ok" =>
        ReadConsumed(ops) + (IF next_op # None /\ ConsumesRead(next_op.kind) THEN next_op.len ELSE 0)
            = read_position - PositionMin

\* C3: a cursor advanced past the read length is a fatal error: the iterator
\* never runs to its end with the cursor beyond read_length + 1.
C3_OvershootIsFatal ==
    Exhausted => read_position <= read_length + 1

\* C5: every table decode has accepted sums to exactly 4096 (a table with
\* another sum makes decode fail with a corruption error), the tables of the
\* arrays the encoder's tests expect included.
C5_TablesSumToScale ==
    pc = "ok" => \A c \in ReadTables : TableSum(freqs[c]) = SCALE

\* the array of encode.rs:74-80 is decoded to b"noodles" from 6 tables that
\* each sum to 4095
VectorDecodedReached ==
    /\ tamper.kind = "none" /\ stream = Expected1 /\ pc = "ok" /\ dst = Noodles
    /\ Cardinality(ReadTables) = 6
    /\ \A c \in ReadTables : TableSum(freqs[c]) = ENCODER_SCALE

\* with a frequency lowered the table is taken as it stands and the symbols
\* are decoded from it: decode has no error for a sum
LoweredTableAccepted ==
    /\ tamper.kind = "table" /\ pc = "ok"
    /\ \E c \in ReadTables : TableSum(freqs[c]) < ENCODER_SCALE

\* decode of order_1.rs ends with Ok or with the end of the input, whatever
\* the tables sum to
NoErrorForASum ==
    DecodeReturned => pc \in {"ok", "eof"}

\* every table read from what encode has written sums to ENCODER_SCALE
WrittenTablesSum ==
    (tamper.kind = "none" /\ pc \notin {"encode", "tamper", "header", "freqs"})
        => /\ ReadTables # {}
           /\ \A c \in ReadTables : TableSum(freqs[c]) = ENCODER_SCALE
           /\ pc \in {"states", "loop", "remainder", "loop0", "ok"}

\* C6: once a symbol was decoded and its renormalization has run, each of the
\* four lane states lies in [LOWER_BOUND, LOWER_BOUND * 256), whatever the
\* initial states and the body bytes.
C6_StatesInRange ==
    (InLoop /\ steps > 0) => \A k \in Lanes : InStateRange(states[k])

\* C7: a lookup that lands on a symbol of frequency 0 makes decode fail.
C7_ZeroFrequencyFails ==
    zero_hit => pc # "ok"

\* C8: a stream cut short anywhere (header, tables, states, body) makes
\* decode return the end-of-input error, never Ok.
C8_TruncationIsEof ==
    (tamper.kind = "truncate" /\ DecodeReturned) => pc = "eof"

\* the cut fell inside the symbol body: symbols were decoded before the
\* renormalization ran out of bytes
C8_Witness ==
    /\ tamper.kind = "truncate" /\ pc = "eof" /\ steps > 0
    /\ pos = Len(stream) /\ pos >= StatesOffset(encoded) + 4 * STATE_COUNT

\* C9: encoding "noodles" gives the 46-byte vector at order 0 and the 68-byte
\* vector at order 1, byte for byte; byte 0 is the order, bytes 1-4 the
\* little-endian length of what follows the header, bytes 5-8 the
\* little-endian 7; decoding either vector gives "noodles" back.
C9_KnownVectors ==
    (src = Noodles /\ pc # "encode") =>
        /\ encoded = IF order = 0 THEN Expected0 ELSE Expected1
        /\ Len(encoded) = IF order = 0 THEN 46 ELSE 68
        /\ encoded[1] = order
        /\ ReadU32LE(encoded, 1) = Len(encoded) - HEADER_SIZE
        /\ ReadU32LE(encoded, 5) = 7
        /\ (tamper.kind = "none" /\ DecodeReturned) => (pc = "ok" /\ dst = Noodles)

C9_Witness ==
    /\ src = Noodles /\ order = 1 /\ tamper.kind = "none" /\ pc = "ok"
    /\ encoded = Expected1 /\ dst = Noodles

\* C10: with no features the iterator yields the single operation
\* Match(read_length) when read_length > 0 and nothing when it is 0.
\* No call panics, for any read length.
C10_NoFeatures ==
    all_features = <<>> =>
        /\ status = "ok"
        /\ ops = <<>> \/ (read_length > 0 /\ ops = <<Op("Match", read_length)>>)
        /\ Exhausted => ops = IF read_length > 0 THEN <<Op("Match", read_length)>> ELSE <<>>

\* what remains of it: the same for every read length below usize::MAX
NoFeaturesBelowUsizeMax == read_length < USIZE_MAX => C10_NoFeatures

\* the first call on an empty list with read_length = usize::MAX has panicked
\* at cigar.rs:45 with nothing yielded
LongestReadPanicked ==
    /\ all_features = <<>> /\ read_length = USIZE_MAX
    /\ status = "panicked" /\ ops = <<>> /\ ret = NotCalled /\ read_position = PositionMin

\* Match(read_length) and then None, for the longest read that has them
LongReadExhausted ==
    /\ all_features = <<>> /\ Exhausted /\ read_length = USIZE_MAX - 1
    /\ ops = <<Op("Match", read_length)>>

(* ---------------- the lanes stepped in an arbitrary order -------------- *)
(* SpecLanes runs the loop body of order_1.rs:40-52 for one lane at a      *)
(* time, the lanes taken in any order, each lane filling its own chunk     *)
(* from the front.  RoundRobin is the order of order_1.rs:38-73.           *)

\* order_1.rs:27-30: the number of bytes of lane k's chunk
ChunkLen(n, k) == IF k = STATE_COUNT - 1 THEN n - (STATE_COUNT - 1) * (n \div STATE_COUNT)
                  ELSE n \div STATE_COUNT

\* order_1.rs:40-52 on a decoder D = [pos, states, last_syms, dst, idx, reads,
\* status]: lane k decodes its next symbol
\* (mutant: the lane takes its context from the lane before it)
LaneStep_NeighbourContext(s, F, D, k) ==
    LET d == DecodeSymbol(s, D.pos, F, D.states[k], D.last_syms[(k + STATE_COUNT - 1) % STATE_COUNT])
        q == Len(D.dst) \div STATE_COUNT
    IN  [ pos       |-> d.pos,
          states    |-> [D.states EXCEPT ![k] = IF d.ok THEN d.r ELSE d.advanced],
          last_syms |-> IF d.ok THEN [D.last_syms EXCEPT ![k] = d.sym] ELSE D.last_syms,
          dst       |-> [D.dst EXCEPT ![k * q + D.idx[k] + 1] = d.sym],
          idx       |-> IF d.ok THEN [D.idx EXCEPT ![k] = D.idx[k] + 1] ELSE D.idx,
          reads     |-> D.reads \o [ n \in 1..(d.pos - D.pos) |-> k ],
          status    |-> IF d.ok THEN "loop" ELSE "eof" ]
LaneStep(s, F, D, k) ==
    LET d == DecodeSymbol(s, D.pos, F, D.states[k], D.last_syms[k])
        q == Len(D.dst) \div STATE_COUNT
    IN  [ pos       |-> d.pos,
          states    |-> [D.states EXCEPT ![k] = IF d.ok THEN d.r ELSE d.advanced],
          last_syms |-> IF d.ok THEN [D.last_syms EXCEPT ![k] = d.sym] ELSE D.last_syms,
          dst       |-> [D.dst EXCEPT ![k * q + D.idx[k] + 1] = d.sym],
          idx       |-> IF d.ok THEN [D.idx EXCEPT ![k] = D.idx[k] + 1] ELSE D.idx,
          reads     |-> D.reads \o [ n \in 1..(d.pos - D.pos) |-> k ],
          status    |-> IF d.ok THEN "loop" ELSE "eof" ]

\* order_1.rs:38-73 as a function: the lane of order_1.rs:39 while a full
\* round is left, lane 3 after that
RoundRobinLane(D) ==
    LET q == Len(D.dst) \div STATE_COUNT
        behind == { k \in Lanes : D.idx[k] < q /\ \A m \in Lanes : D.idx[k] <= D.idx[m] }
    IN  IF behind # {} THEN Min(behind) ELSE STATE_COUNT - 1

RECURSIVE RoundRobin(_, _, _)
RoundRobin(s, F, D) ==
    IF D.status # "loop" THEN D
    ELSE IF \A k \in Lanes : D.idx[k] >= ChunkLen(Len(D.dst), k) THEN [D EXCEPT !.status = "ok"]
    ELSE RoundRobin(s, F, LaneStep(s, F, D, RoundRobinLane(D)))

\* the decoder right after order_1.rs:36, over an output of n bytes
Decoder(p, sts, n) ==
    [ pos |-> p, states |-> sts, last_syms |-> [k \in Lanes |-> 0],
      dst |-> [x \in 1..n |-> 0], idx |-> [k \in Lanes |-> 0], reads |-> <<>>,
      status |-> "loop" ]

\* order_1.rs:12-76 on the n output bytes, reading s from position p, in the
\* build with overflow checks or in the one without
decode_1(s, p, n, checked) ==
    LET fr == read_frequencies_1(s, p, checked)
        st == read_states(s, fr.pos)
    IN  IF fr.status # "ok" THEN [status |-> fr.status, dst |-> [x \in 1..n |-> 0], reads |-> <<>>]
        ELSE IF st.status # "ok" THEN [status |-> "eof", dst |-> [x \in 1..n |-> 0], reads |-> <<>>]
        ELSE LET D == RoundRobin(s, fr.freqs, Decoder(st.pos, st.states, n))
             IN  [status |-> D.status, dst |-> D.dst, reads |-> D.reads]

\* the array of encode.rs:57-62 decoded the way order_1.rs:26-73 decode, each
\* lane filling a chunk, from the one table
ChunkedOrder0(s, n) ==
    LET t  == read_frequencies_0(s, HEADER_SIZE, EmptyTable, TRUE)
        st == read_states(s, t.pos)
    IN  RoundRobin(s, [c \in 0..(ALPHABET_SIZE - 1) |-> t.table], Decoder(st.pos, st.states, n))

\* the expected array of order 0 gives b"noodles" with the lanes taken in
\* turn, byte by byte, and not with a chunk per lane
OrderZeroVectorIsInterleaved ==
    /\ (stream = Expected0 /\ pc = "ok") => dst = Noodles
    /\ ChunkedOrder0(Expected0, Len(Noodles)).dst # Noodles

\* the inputs of SpecLanes: order 1, at least one symbol per lane
LaneInputs == { s \in SmallInputs : Len(s) >= STATE_COUNT } \cup {Noodles, Mixed20}

InitLanes ==
    /\ CoderIdle
    /\ CigarIdle
    /\ IoIdle
    /\ order = 1
    /\ src \in LaneInputs
    /\ RansStart

\* the bytes reach the reader as encode wrote them
Intact ==
    /\ pc = "tamper"
    /\ tamper' = NoTamper
    /\ stream' = encoded
    /\ pc' = "header"
    /\ UNCHANGED <<coder, cigar_vars, io_vars, order, src, encoded, pos, dorder, freqs, states,
                   last_syms, dst, i, lane, rem_r, rem_last_sym, rem_count, idx,
                   zero_hit, reads, steps, writes>>

\* any lane with room in its chunk decodes its next symbol
FreeStep ==
    /\ pc = "loop"
    /\ \E k \in Lanes :
          /\ idx[k] < ChunkLen(Len(dst), k)
          /\ LET D == LaneStep(stream, freqs,
                               [pos |-> pos, states |-> states, last_syms |-> last_syms,
                                dst |-> dst, idx |-> idx, reads |-> reads, status |-> "loop"], k)
             IN  /\ pos' = D.pos
                 /\ states' = D.states
                 /\ last_syms' = D.last_syms
                 /\ dst' = D.dst
                 /\ idx' = D.idx
                 /\ reads' = D.reads
                 /\ pc' = D.status
                 /\ steps' = IF D.status = "loop" THEN steps + 1 ELSE steps
                 /\ lane' = k
    /\ UNCHANGED <<coder, cigar_vars, io_vars, order, src, encoded, tamper, stream, dorder, freqs,
                   i, rem_r, rem_last_sym, rem_count, zero_hit, writes>>

\* every chunk is full
FinishFree ==
    /\ pc = "loop"
    /\ \A k \in Lanes : idx[k] >= ChunkLen(Len(dst), k)
    /\ pc' = "ok"
    /\ UNCHANGED <<coder, cigar_vars, io_vars, order, src, encoded, tamper, stream, pos, dorder, freqs,
                   states, last_syms, dst, i, lane, rem_r, rem_last_sym, rem_count, idx,
                   zero_hit, reads, steps, writes>>

NextLanes ==
    \/ Encode \/ Intact \/ ReadHeader \/ ReadFrequencies \/ ReadStates
    \/ FreeStep \/ FinishFree

SpecLanes == InitLanes /\ [][NextLanes]_vars

\* what order_1.rs:12-76 gives for the stream of the current state
RoundRobinResult(checked) == decode_1(stream, HEADER_SIZE, Len(dst), checked)

\* C4 as stated: the four lanes are independent, so stepping them in any
\* order gives the output of the round robin.
C4_AnyOrderSameOutput ==
    \A checked \in BOOLEAN :
        LET rr == RoundRobinResult(checked)
        IN  (rr.status = "ok" /\ pc \in {"ok", "eof"}) => (pc = "ok" /\ dst = rr.dst)

\* C4: the lanes keep their own state, previous symbol and chunk but read
\* the renormalization bytes from one reader; an order of the lanes gives the
\* output of the round robin when the bytes were read by the same lanes in
\* the same order as there (in particular when none was read).
C4_SameReadsSameOutput ==
    \A checked \in BOOLEAN :
        LET rr == RoundRobinResult(checked)
        IN  (pc = "ok" /\ reads = rr.reads) => (rr.status = "ok" /\ dst = rr.dst)

\* an order other than the round robin (its last step was lane 0, not lane 3)
\* has finished a stream whose body has bytes
C4_Witness ==
    /\ pc = "ok" /\ src = Mixed20 /\ reads # <<>>
    /\ \A checked \in BOOLEAN :
           /\ reads = RoundRobinResult(checked).reads
           /\ dst = RoundRobinResult(checked).dst
    /\ lane = 0

(***************************************************************************)
(*                     read_container (CRAM, async)                        *)
(*                                                                         *)
(* The stream is a sequence of small numbers.  The parsers behind          *)
(* read_header, get_compression_header and read_slice are kept to what     *)
(* read_container sees of them: the header gives the body length and the   *)
(* number of landmarks, a compression header and a slice take one body     *)
(* byte each and accept or reject it.                                      *)
(***************************************************************************)

\* ---- bounds of the model ----
MaxBodyLen == 3
MaxLandmarks == 2
MaxContainerCalls == 3

\* the container header of the model: the body length, the landmark count
CONTAINER_HEADER_LEN == 2
\* the body byte that parses as a compression header, the ones that parse as
\* a slice, and one that parses as neither
CompressionHeaderByte == 1
SliceBytes == {2, 3}
GarbageByte == 9
BodyBytes == {CompressionHeaderByte, GarbageByte} \cup SliceBytes

OkNone == [kind |-> "None"]
Err(error, stage) == [kind |-> "Err", error |-> error, stage |-> stage]

\* container/header.rs read_header: 0 at the end of the stream and for a
\* header that reports length 0, the body length otherwise
read_header(s, p) ==
    IF p >= Len(s) THEN [status |-> "ok", len |-> 0, landmarks |-> 0, pos |-> p]
    ELSE IF Len(s) - p < CONTAINER_HEADER_LEN
            THEN [status |-> "eof", len |-> 0, landmarks |-> 0, pos |-> Len(s)]
            ELSE [status |-> "ok", len |-> s[p + 1], landmarks |-> s[p + 2],
                  pos |-> p + CONTAINER_HEADER_LEN]

\* container.rs:23: buf.resize(len, 0)
Resize(b, n) == [ k \in 1..n |-> IF k <= Len(b) THEN b[k] ELSE 0 ]

\* container.rs:24: reader.read_exact(buf): n bytes or UnexpectedEof, the
\* bytes that were there are consumed either way
\* (mutant: a short read is handed on as if it were complete)
read_exact_Short(s, p, n) ==
    LET got == IF Len(s) - p < n THEN Len(s) - p ELSE n
    IN  [ok |-> TRUE, bytes |-> SubSeq(s, p + 1, p + got), pos |-> p + got]
read_exact(s, p, n) ==
    LET got == IF Len(s) - p < n THEN Len(s) - p ELSE n
    IN  [ok |-> got = n, bytes |-> SubSeq(s, p + 1, p + got), pos |-> p + got]

\* get_compression_header: takes the compression header off the buffer
get_compression_header(b) ==
    IF b = <<>> THEN [status |-> "UnexpectedEof", value |-> 0, rest |-> b]
    ELSE IF Head(b) = CompressionHeaderByte
            THEN [status |-> "ok", value |-> Head(b), rest |-> Tail(b)]
            ELSE [status |-> "InvalidData", value |-> 0, rest |-> Tail(b)]

\* read_slice: takes one slice off the buffer
read_slice(b) ==
    IF b = <<>> THEN [status |-> "UnexpectedEof", value |-> 0, rest |-> b]
    ELSE IF Head(b) \in SliceBytes
            THEN [status |-> "ok", value |-> Head(b), rest |-> Tail(b)]
            ELSE [status |-> "InvalidData", value |-> 0, rest |-> Tail(b)]

\* container.rs:32-35: slice_count slices, the first error ends the loop
\* (mutant: the slices read before the error are kept as the result)
RECURSIVE ReadSlices_Partial(_, _, _)
ReadSlices_Partial(b, slice_count, slices) ==
    IF slice_count = 0 THEN [status |-> "ok", slices |-> slices, rest |-> b]
    ELSE LET sl == read_slice(b)
         IN  IF sl.status # "ok" THEN [status |-> "ok", slices |-> slices, rest |-> sl.rest]
             ELSE ReadSlices_Partial(sl.rest, slice_count - 1, Append(slices, sl.value))
RECURSIVE ReadSlices(_, _, _)
ReadSlices(b, slice_count, slices) ==
    IF slice_count = 0 THEN [status |-> "ok", slices |-> slices, rest |-> b]
    ELSE LET sl == read_slice(b)
         IN  IF sl.status # "ok" THEN [status |-> sl.status, slices |-> slices, rest |-> sl.rest]
             ELSE ReadSlices(sl.rest, slice_count - 1, Append(slices, sl.value))

\* container.rs:24-37 once read_exact has returned: the body was read from
\* position from into the caller's buffer b, which line 23 has resized to len
ReadBody(s, from, len, landmarks, b) ==
    LET body == read_exact(s, from, len)
    IN  IF ~body.ok
           THEN [ret |-> Err("UnexpectedEof", "body"), pos |-> body.pos,
                 buf |-> body.bytes \o SubSeq(b, Len(body.bytes) + 1, len)]
        ELSE LET ch == get_compression_header(body.bytes)
                 sl == ReadSlices(ch.rest, landmarks, <<>>)
             IN  [ret |-> IF ch.status # "ok" THEN Err(ch.status, "parse")
                          ELSE IF sl.status # "ok" THEN Err(sl.status, "parse")
                          ELSE [kind |-> "Container",
                                compression_header |-> ch.value,
                                slices |-> sl.slices],
                  \* container.rs:25: split() leaves the caller's buffer empty
                  pos |-> body.pos, buf |-> <<>>]

\* container.rs:12-38 with a reader that is always ready, on the stream s at
\* position p with the caller's buffer b: the return value, the new position
\* and the caller's buffer
read_container(s, p, b) ==
    LET h == read_header(s, p)
    IN  IF h.status # "ok"
           THEN [ret |-> Err("UnexpectedEof", "header"), pos |-> h.pos, buf |-> b]
        ELSE IF h.len = 0
           THEN [ret |-> OkNone, pos |-> h.pos, buf |-> b]
        ELSE ReadBody(s, h.pos, h.len, h.landmarks, Resize(b, h.len))

\* ---- the call as a future: polled, it runs to its next await and yields
\* there (Pending) when the reader has no more bytes for now, or runs on ----
AtHeader(from) == [at |-> "header", from |-> from]
AtBody(from, len, landmarks) == [at |-> "body", from |-> from, len |-> len, landmarks |-> landmarks]
Outcome(fut, returned, p, b) == [future |-> fut, ret |-> returned, pos |-> p, buf |-> b]

\* the poll of a call that waits in read_exact (container.rs:24) at position
\* p: it yields with the body read up to some q, the bytes read so far in
\* the front of the buffer, or read_exact returns and the call runs to its end
PollBody(s, fut, p, b) ==
    LET body == read_exact(s, fut.from, fut.len)
        last == IF body.ok THEN body.pos - 1 ELSE body.pos
        done == ReadBody(s, fut.from, fut.len, fut.landmarks, b)
    IN  { Outcome(fut, Pending, q,
                  SubSeq(s, fut.from + 1, q) \o SubSeq(b, q - fut.from + 1, fut.len)) :
            q \in p..last }
        \cup { Outcome(NoFuture, done.ret, done.pos, done.buf) }

\* the poll of a call that waits in read_header (container.rs:18) at position
\* p: it yields with the header read up to some q, or read_header returns and
\* the call returns (lines 18-21) or resizes the buffer (line 23) and goes on
\* to read_exact
PollHeader(s, fut, p, b) ==
    LET h == read_header(s, fut.from)
        whole == h.status = "ok" /\ h.pos > fut.from
        last == IF whole THEN h.pos - 1 ELSE h.pos
    IN  { Outcome(fut, Pending, q, b) : q \in p..last }
        \cup (IF h.status # "ok"
                 THEN { Outcome(NoFuture, Err("UnexpectedEof", "header"), h.pos, b) }
              ELSE IF h.len = 0
                 THEN { Outcome(NoFuture, OkNone, h.pos, b) }
              ELSE PollBody(s, AtBody(h.pos, h.len, h.landmarks), h.pos, Resize(b, h.len)))

Poll(s, fut, p, b) ==
    IF fut.at = "header" THEN PollHeader(s, fut, p, b) ELSE PollBody(s, fut, p, b)

\* ---- the streams ----
Bodies(n) == [1..n -> BodyBytes]
\* a header followed by the whole body it declares
FullFrames ==
    UNION { { <<n, lm>> \o b : lm \in 0..MaxLandmarks, b \in Bodies(n) } : n \in 0..MaxBodyLen }
\* a stream that ends inside a header or inside a body
TruncatedFrames ==
    UNION { { <<n, lm>> \o b : lm \in 0..MaxLandmarks, b \in UNION { Bodies(k) : k \in 0..(n - 1) } }
            : n \in 1..MaxBodyLen }
    \cup { <<n>> : n \in 0..MaxBodyLen }
\* what follows the first container: nothing, the end marker, a container
\* with one slice, a broken header
NextContainer == << 2, 1, CompressionHeaderByte, 2 >>
Tails == { <<>>, <<0, 0>>, NextContainer, <<1>> }
ContainerStreams ==
    { f \o t : f \in FullFrames, t \in Tails } \cup TruncatedFrames \cup { <<>> }

\* the fields of the header the last call read
HeaderComplete == Len(input) - before.offset >= CONTAINER_HEADER_LEN
DeclaredLength == input[before.offset + 1]
DeclaredLandmarks == input[before.offset + 2]
BodyAvailable == Len(input) - (before.offset + CONTAINER_HEADER_LEN)
\* the last call has returned
Called == result \notin {NoResult, Pending, Cancelled}

InitContainer ==
    /\ CoderIdle
    /\ CigarIdle
    /\ RansIdle
    /\ reader = "container"
    /\ input \in ContainerStreams
    /\ offset = 0
    /\ caller_buf \in { <<>>, <<7>> }
    /\ record = NoRecord
    /\ result = NoResult
    /\ before = [offset |-> 0, buf |-> caller_buf, record |-> NoRecord, last |-> NoResult]
    /\ ncalls = 0
    /\ future = NoFuture
    /\ layout = <<>>

\* what a poll leaves behind
Polled(o) ==
    /\ future' = o.future
    /\ result' = o.ret
    /\ offset' = o.pos
    /\ caller_buf' = o.buf

\* read_container is called (container.rs:12-38) and polled for the first
\* time; last is what the call before it came to
ReadContainer ==
    /\ reader = "container"
    /\ future = NoFuture
    /\ ncalls < MaxContainerCalls
    /\ \E o \in Poll(input, AtHeader(offset), offset, caller_buf) : Polled(o)
    /\ before' = [offset |-> offset, buf |-> caller_buf, record |-> record, last |-> result]
    /\ ncalls' = ncalls + 1
    /\ UNCHANGED <<coder, cigar_vars, rans_vars, reader, input, record, layout>>

\* the call that has yielded is polled again
PollContainer ==
    /\ reader = "container"
    /\ future # NoFuture
    /\ \E o \in Poll(input, future, offset, caller_buf) : Polled(o)
    /\ UNCHANGED <<coder, cigar_vars, rans_vars, reader, input, record, layout, before, ncalls>>

\* the caller drops the call that has yielded: the bytes it has read are
\* gone from the stream, the buffer stays as the call left it
DropContainer ==
    /\ reader = "container"
    /\ future # NoFuture
    /\ future' = NoFuture
    /\ result' = Cancelled
    /\ UNCHANGED <<coder, cigar_vars, rans_vars, reader, input, record, layout, before, ncalls,
                   offset, caller_buf>>

NextContainerCall == ReadContainer \/ PollContainer \/ DropContainer

SpecContainer == InitContainer /\ [][NextContainerCall]_vars

\* the number of slices at the front of a body after its compression header
RECURSIVE SlicesIn(_)
SlicesIn(b) == IF b # <<>> /\ Head(b) \in SliceBytes THEN 1 + SlicesIn(Tail(b)) ELSE 0

\* the body of the container the last call read, when it was all there
LastBody == SubSeq(input, before.offset + CONTAINER_HEADER_LEN + 1,
                   before.offset + CONTAINER_HEADER_LEN + DeclaredLength)

\* C16: at the end of the stream and for a header of length 0 the call
\* returns Ok(None), reads nothing behind the header and leaves the caller's
\* buffer as it was; when the stream ends before the declared body length
\* it returns an error, never Ok(None) and never a Container.
C16_CleanEndOrError ==
    Called =>
        /\ (before.offset >= Len(input) \/ (HeaderComplete /\ DeclaredLength = 0)) =>
              /\ result = OkNone
              /\ offset = IF before.offset >= Len(input) THEN before.offset
                          ELSE before.offset + CONTAINER_HEADER_LEN
              /\ caller_buf = before.buf
        /\ (HeaderComplete /\ DeclaredLength > 0 /\ BodyAvailable < DeclaredLength) =>
              result.kind = "Err"

\* a second call, at the very end of a stream, has returned Ok(None) and left
\* the caller's buffer untouched
C16_Witness ==
    /\ ncalls = 2 /\ result = OkNone /\ before.offset = Len(input) /\ Len(input) > 0
    /\ before.last.kind = "Container"
    /\ caller_buf = before.buf

\* a call on a stream that ends inside the body has returned the error
TruncatedBodyReached ==
    /\ ncalls = 1 /\ result = Err("UnexpectedEof", "body")
    /\ HeaderComplete /\ DeclaredLength = 3 /\ BodyAvailable = 2

\* C17: the call returns an error whenever the landmark count differs from
\* the number of slices in the body, with more landmarks than slices as well
\* as with slices left behind the last landmark.
C17_LandmarkMismatchIsError ==
    (Called /\ HeaderComplete /\ DeclaredLength > 0 /\ BodyAvailable >= DeclaredLength
        /\ Head(LastBody) = CompressionHeaderByte
        /\ DeclaredLandmarks # SlicesIn(Tail(LastBody)))
      => result.kind = "Err"

\* the half of C17 that holds: more landmarks than slices is an error, and a
\* Container has one slice per landmark, in body order
MoreLandmarksThanSlicesIsError ==
    /\ (Called /\ HeaderComplete /\ DeclaredLength > 0 /\ BodyAvailable >= DeclaredLength
          /\ Head(LastBody) = CompressionHeaderByte
          /\ DeclaredLandmarks > SlicesIn(Tail(LastBody)))
        => result.kind = "Err"
    /\ (Called /\ result.kind = "Container")
        => result.slices = SubSeq(LastBody, 2, 1 + DeclaredLandmarks)

\* C18: when the compression header or a slice fails to parse, the stream
\* is past the header and the whole declared body, so that the next call
\* starts at the next container's header; a Container never holds fewer
\* slices than the header has landmarks.
C18_ResumeAtNextContainer ==
    /\ (Called /\ result.kind = "Err" /\ result.stage = "parse")
          => offset = before.offset + CONTAINER_HEADER_LEN + DeclaredLength
    /\ (Called /\ result.kind = "Container")
          => /\ Len(result.slices) = DeclaredLandmarks
             /\ offset = before.offset + CONTAINER_HEADER_LEN + DeclaredLength
    /\ (Called /\ before.last.kind = "Err" /\ before.last.stage = "parse"
          /\ SubSeq(input, before.offset + 1, Len(input)) = NextContainer)
          => result = [kind |-> "Container", compression_header |-> CompressionHeaderByte,
                       slices |-> <<2>>]

\* the first call failed on a slice that does not parse, the second call has
\* returned the container behind it
C18_Witness ==
    /\ ncalls = 2
    /\ before.last = Err("InvalidData", "parse")
    /\ read_container(input, 0, <<>>).ret = before.last
    /\ before.offset = CONTAINER_HEADER_LEN + input[1]
    /\ result = [kind |-> "Container", compression_header |-> CompressionHeaderByte,
                 slices |-> <<2>>]

\* a call that yields and is polled until it returns comes to what the call
\* with a reader that is always ready comes to
SamePolledAsReady ==
    Called =>
        LET r == read_container(input, before.offset, before.buf)
        IN  result = r.ret /\ offset = r.pos /\ caller_buf = r.buf

\* while a call waits, the stream is consumed up to where it got and, from
\* line 23 on, the buffer has the declared length with the body bytes read
\* so far in its front
WhileWaiting ==
    (reader = "container" /\ future # NoFuture) =>
        /\ result = Pending
        /\ IF future.at = "header"
              THEN /\ future.from = before.offset
                   /\ offset \in future.from..(future.from + CONTAINER_HEADER_LEN)
                   /\ caller_buf = before.buf
              ELSE /\ future.from = before.offset + CONTAINER_HEADER_LEN
                   /\ offset \in future.from..(future.from + future.len)
                   /\ caller_buf = SubSeq(input, future.from + 1, offset)
                         \o SubSeq(Resize(before.buf, future.len), offset - future.from + 1, future.len)

\* the stream 3 1 | 1 2 9 with the buffer <<7>>: the call has yielded before
\* the body, with the buffer resized
YieldedBeforeBodyReached ==
    /\ input = <<3, 1, 1, 2, 9>> /\ ncalls = 1 /\ result = Pending
    /\ future.at = "body" /\ offset = 2 /\ caller_buf = <<7, 0, 0>>

\* ... it was dropped, and the next call has read the body as a header
BodyReadAsHeaderReached ==
    /\ input = <<3, 1, 1, 2, 9>> /\ ncalls = 2 /\ before.last = Cancelled
    /\ before.offset = 2 /\ before.buf = <<7, 0, 0>>
    /\ result = Err("InvalidData", "parse") /\ offset = 5

\* the stream 2 1 | 1 | 2 with an empty buffer: the call has yielded in the
\* body, was dropped, and the next call has found the end of the stream in
\* its header
DroppedInBodyReached ==
    /\ input = <<2, 1, 1, 2>> /\ ncalls = 2 /\ before.last = Cancelled
    /\ before.offset = 3 /\ before.buf = <<1, 0>>
    /\ result = Err("UnexpectedEof", "header") /\ caller_buf = <<1, 0>>

\* a call on a truncated body was dropped before the end of the stream was
\* seen, and the next call has reported the clean end
CleanEndAfterDropReached ==
    /\ ncalls = 2 /\ before.last = Cancelled /\ before.offset = Len(input)
    /\ input = <<2, 1, 1>> /\ result = OkNone

(***************************************************************************)
(*                          read_bins (CSI)                                *)
(*                                                                         *)
(* The stream is a sequence of fields (n_bin, id, loffset, n_chunk, ...),  *)
(* each read by one read_i32 / read_u32 / read_u64; a stream that ends     *)
(* inside a field fails the read of that field like one that ends before   *)
(* it.                                                                     *)
(***************************************************************************)

\* ---- bound of the model ----
MaxBins == 3

\* bins.rs:114
DEPTH == 5
\* index/reference_sequence/bin.rs Bin::metadata_id: 37450 for depth 5
\* (bins.rs:129)
metadata_id(depth) == ((2 ^ (3 * (depth + 1)) - 1) \div 7) + 1
\* reference_sequences.rs read_metadata: METADATA_CHUNK_COUNT
METADATA_CHUNK_COUNT == 2

BinsErr(error, detail) == [kind |-> "Err", error |-> error, detail |-> detail]

\* bins/chunks.rs read_chunks: n_chunk, then n_chunk pairs (begin, end)
RECURSIVE ReadChunkPairs(_, _, _, _)
ReadChunkPairs(s, p, n, chunks) ==
    IF n = 0 THEN [status |-> "ok", chunks |-> chunks, pos |-> p]
    ELSE IF Len(s) - p < 2 THEN [status |-> "UnexpectedEof", chunks |-> chunks, pos |-> Len(s)]
    ELSE ReadChunkPairs(s, p + 2, n - 1, Append(chunks, <<s[p + 1], s[p + 2]>>))
read_chunks(s, p) ==
    IF p >= Len(s) THEN [status |-> "UnexpectedEof", chunks |-> <<>>, pos |-> p]
    ELSE IF s[p + 1] < 0 THEN [status |-> "InvalidChunkCount", chunks |-> <<>>, pos |-> p + 1]
    ELSE ReadChunkPairs(s, p + 1, s[p + 1], <<>>)

\* reference_sequences.rs read_metadata: n_chunk = 2, then ref_beg, ref_end,
\* n_mapped, n_unmapped
read_metadata(s, p) ==
    IF p >= Len(s) THEN [status |-> "UnexpectedEof", value |-> <<>>, pos |-> p]
    ELSE IF s[p + 1] # METADATA_CHUNK_COUNT
            THEN [status |-> "InvalidData", value |-> <<>>, pos |-> p + 1]
    ELSE IF Len(s) - (p + 1) < 4
            THEN [status |-> "UnexpectedEof", value |-> <<>>, pos |-> Len(s)]
    ELSE [status |-> "ok", value |-> SubSeq(s, p + 2, p + 5), pos |-> p + 5]

\* bins.rs:99: bins.insert(id, bin).is_some()
\* (mutant: a second entry for an id is taken like a first one)
IsDuplicate_Never(bins, id) == FALSE
IsDuplicate(bins, id) == \E k \in 1..Len(bins) : bins[k].id = id

\* bins.rs:79-103: the loop over the n_bin entries; bins in insertion order
RECURSIVE ReadBinsLoop(_, _, _, _, _, _)
ReadBinsLoop(s, p, depth, n, bins, metadata) ==
    IF n = 0 THEN [ret |-> [kind |-> "Ok", bins |-> bins, metadata |-> metadata], pos |-> p]
    ELSE IF Len(s) - p < 2
        THEN [ret |-> BinsErr("Io", "UnexpectedEof"), pos |-> Len(s)]
    ELSE LET id == s[p + 1]
             loffset == s[p + 2]
         IN  IF id = metadata_id(depth)
                THEN LET m == read_metadata(s, p + 2)
                     IN  IF m.status # "ok" THEN [ret |-> BinsErr("Io", m.status), pos |-> m.pos]
                         ELSE IF metadata # None
                                 THEN [ret |-> BinsErr("DuplicateBin", id), pos |-> m.pos]
                         ELSE ReadBinsLoop(s, m.pos, depth, n - 1, bins, m.value)
                ELSE LET c == read_chunks(s, p + 2)
                     IN  IF c.status # "ok"
                            THEN [ret |-> BinsErr("InvalidChunks", c.status), pos |-> c.pos]
                         ELSE IF IsDuplicate(bins, id)
                                 THEN [ret |-> BinsErr("DuplicateBin", id), pos |-> c.pos]
                         ELSE ReadBinsLoop(s, c.pos, depth, n - 1,
                                  Append(bins, [id |-> id, loffset |-> loffset, chunks |-> c.chunks]),
                                  metadata)

\* bins.rs:69: n_bin is read as an i32
I32_MAX == 2147483647
\* bins.rs:74: IndexMap::with_capacity(n_bin) allocates room for n_bin entries
\* before any entry is read; when the allocator does not grant it the process
\* is aborted ("memory allocation of ... bytes failed").  granted is the
\* largest capacity the machine grants.
Aborted == [kind |-> "Abort"]
with_capacity(n, granted) == n <= granted

\* bins.rs:62-106 (mutant: the loop runs over one entry less than n_bin)
read_bins_OneShort(s, depth, granted) ==
    IF s = <<>> THEN [ret |-> BinsErr("Io", "UnexpectedEof"), pos |-> 0]
    ELSE IF s[1] < 0 THEN [ret |-> BinsErr("InvalidBinCount", s[1]), pos |-> 1]
    ELSE IF ~with_capacity(s[1], granted) THEN [ret |-> Aborted, pos |-> 1]
    ELSE ReadBinsLoop(s, 1, depth, IF s[1] > 0 THEN s[1] - 1 ELSE 0, <<>>, None)
read_bins(s, depth, granted) ==
    IF s = <<>> THEN [ret |-> BinsErr("Io", "UnexpectedEof"), pos |-> 0]
    ELSE IF s[1] < 0 THEN [ret |-> BinsErr("InvalidBinCount", s[1]), pos |-> 1]
    ELSE IF ~with_capacity(s[1], granted) THEN [ret |-> Aborted, pos |-> 1]
    ELSE ReadBinsLoop(s, 1, depth, s[1], <<>>, None)

\* ---- the streams ----
\* entries as their fields: id, loffset, n_chunk and the chunks
OrdinaryEntries == { <<0, 0, 0>>, <<0, 0, 1, 0, 0>>, <<0, 1, 0>>, <<1, 0, 0>> }
MetadataEntries == { <<metadata_id(DEPTH), 0, 2, 0, 0, 0, 0>>,
                     <<metadata_id(DEPTH), 0, 2, 0, 0, 1, 0>> }
\* a metadata pseudo-bin with the chunk count of an ordinary bin
BadMetadataEntry == <<metadata_id(DEPTH), 0, 1>>
BinEntries == OrdinaryEntries \cup MetadataEntries \cup {BadMetadataEntry}
\* bin counts far beyond the entries of any stream
LargeBinCounts == { 2 ^ 28, 2 ^ 30, I32_MAX }
\* the machines: one that grants 2^28 entries and not 2^30, one that grants
\* every count an i32 holds; the few entries of the other layouts are granted
\* by both
GrantedCapacities == { 2 ^ 28, I32_MAX }
BinLayouts ==
    { [n_bin |-> n, entries |-> es] :
        n \in (-1)..MaxBins, es \in UNION { [1..k -> BinEntries] : k \in 0..MaxBins } }
    \cup
    { [n_bin |-> n, entries |-> es] :
        n \in LargeBinCounts, es \in UNION { [1..k -> BinEntries] : k \in 0..1 } }
Fields(l) == <<l.n_bin>> \o Concat(l.entries)

InitBins ==
    /\ CoderIdle
    /\ CigarIdle
    /\ RansIdle
    /\ reader = "bins"
    /\ layout \in BinLayouts
    /\ \E cut \in 0..Len(Fields(layout)) : input = SubSeq(Fields(layout), 1, cut)
    /\ offset = 0
    /\ caller_buf = <<>>
    /\ record = NoRecord
    /\ result = NoResult
    /\ before = [offset |-> 0, buf |-> <<>>, record |-> NoRecord]
    /\ ncalls = 0
    /\ future = NoFuture

\* the call of read_bins (bins.rs:62-106)
ReadBins ==
    /\ reader = "bins"
    /\ ncalls = 0
    /\ \E granted \in GrantedCapacities :
       LET r == read_bins(input, DEPTH, granted)
       IN  /\ result' = r.ret
           /\ offset' = r.pos
    /\ before' = [offset |-> offset, buf |-> caller_buf, record |-> record]
    /\ ncalls' = 1
    /\ UNCHANGED <<coder, cigar_vars, rans_vars, reader, input, caller_buf, record, layout, future>>

SpecBins == InitBins /\ [][ReadBins]_vars

\* ---- what the layout says about the stream read_bins was given ----
BinsCalled == reader = "bins" /\ ncalls = 1
\* the entries read_bins is told to read
Declared == IF layout.n_bin < Len(layout.entries) THEN layout.n_bin ELSE Len(layout.entries)
\* the number of fields up to and including entry k
EndOf(k) == 1 + Len(Concat(SubSeq(layout.entries, 1, k)))
Complete(k) == EndOf(k) <= Len(input)
IdOf(k) == layout.entries[k][1]
IsMetadata(k) == IdOf(k) = metadata_id(DEPTH)
WellFormed(k) == layout.entries[k] # BadMetadataEntry
Repeats(k) == \E j \in 1..(k - 1) : IdOf(j) = IdOf(k)
\* the entries before k were all read and kept
CleanBefore(k) == \A j \in 1..(k - 1) : Complete(j) /\ WellFormed(j) /\ ~Repeats(j)
\* the stream ends before entry k of the n_bin entries is read
EndsAt(k) ==
    /\ layout.n_bin >= k
    /\ Len(input) >= 1
    /\ Len(layout.entries) >= k - 1
    /\ CleanBefore(k)
    /\ IF k <= Len(layout.entries) THEN ~Complete(k) ELSE TRUE
\* the fields of entry k that the stream still holds
FieldsOf(k) == Len(input) - EndOf(k - 1)
\* the entries of the layout as read_bins keeps them
KeptBins ==
    LET Keep(k) == [id |-> IdOf(k), loffset |-> layout.entries[k][2],
                    chunks |-> IF layout.entries[k][3] = 1
                                  THEN << <<layout.entries[k][4], layout.entries[k][5]>> >>
                                  ELSE <<>>]
    IN  SelectSeq([k \in 1..Declared |-> IF IsMetadata(k) THEN None ELSE Keep(k)],
                  LAMBDA b : b # None)
\* a duplicate is reported as DuplicateBin(id), ordinary bin or metadata
\* pseudo-bin alike
DuplicateIsRejected ==
    \A k \in 1..Declared :
        (CleanBefore(k) /\ Complete(k) /\ WellFormed(k) /\ Repeats(k))
            => result = BinsErr("DuplicateBin", IdOf(k))
\* a successful read holds every entry once, as it was in the stream
NothingOverwritten ==
    result.kind = "Ok" =>
        /\ \A k \in 1..Declared : ~Repeats(k)
        /\ result.bins = KeptBins
        /\ \A k \in 1..Declared :
               IsMetadata(k) => result.metadata = SubSeq(layout.entries[k], 4, 7)

\* C19 (as stated): read_bins returns DuplicateBin(id) when an id occurs
\* twice among the n_bin entries, for ordinary bins and the metadata
\* pseudo-bin alike, never overwrites an earlier entry silently, and gives
\* Io(UnexpectedEof) for every stream that ends before n_bin entries are read.
C19_DuplicateOrEof ==
    BinsCalled =>
        /\ DuplicateIsRejected
        /\ NothingOverwritten
        /\ (input = <<>> => result = BinsErr("Io", "UnexpectedEof"))
        /\ \A k \in 1..(MaxBins + 1) :
               EndsAt(k) => result = BinsErr("Io", "UnexpectedEof")

\* what remains of C19 when the allocation of bins.rs:74 is granted: as
\* above, but a stream that ends inside the chunk list of an ordinary bin
\* gives InvalidChunks (wrapping the UnexpectedEof); only a stream that ends
\* in n_bin, in an id, in a loffset or in the metadata pseudo-bin gives
\* Io(UnexpectedEof).
DuplicateOrEofOrInvalidChunks ==
    (BinsCalled /\ result # Aborted) =>
        /\ DuplicateIsRejected
        /\ NothingOverwritten
        /\ (input = <<>> => result = BinsErr("Io", "UnexpectedEof"))
        /\ \A k \in 1..(MaxBins + 1) :
               EndsAt(k) =>
                   IF k <= Len(layout.entries) /\ ~IsMetadata(k) /\ FieldsOf(k) >= 2
                      THEN result = BinsErr("InvalidChunks", "UnexpectedEof")
                      ELSE result = BinsErr("Io", "UnexpectedEof")

\* n_bin = i32::MAX with nothing behind it: the process was aborted by the
\* allocation ...
AllocationAbortReached ==
    /\ BinsCalled /\ input = <<I32_MAX>> /\ result = Aborted /\ offset = 1

\* ... or, on a machine that grants it, the end of the stream was reported
AllocationGrantedReached ==
    /\ BinsCalled /\ input = <<I32_MAX>> /\ result = BinsErr("Io", "UnexpectedEof")

\* the allocation is the only way to an abort, and counts up to 2^28 have none
AbortOnlyByAllocation ==
    (BinsCalled /\ result = Aborted) => (Len(input) >= 1 /\ input[1] > 2 ^ 28)

\* a second metadata pseudo-bin, after an ordinary bin was kept, was rejected
\* as a duplicate
DuplicateMetadataReached ==
    /\ BinsCalled
    /\ Declared = 3
    /\ ~IsMetadata(1) /\ IsMetadata(2) /\ IsMetadata(3)
    /\ Complete(3)
    /\ result = BinsErr("DuplicateBin", metadata_id(DEPTH))

\* a stream that ends inside a chunk list was read
TruncatedChunksReached ==
    /\ BinsCalled
    /\ EndsAt(2) /\ Len(layout.entries) >= 2 /\ ~IsMetadata(2) /\ FieldsOf(2) = 3
    /\ result.kind = "Err"

\* the ids of the first n entries of the layout that are not the metadata
\* pseudo-bin, in stream order
OrdinaryIds(n) ==
    SelectSeq([k \in 1..n |-> IdOf(k)], LAMBDA id : id # metadata_id(DEPTH))

\* C30: a successful read_bins has read exactly n_bin entries; the metadata
\* pseudo-bin id is no key of the returned map; the number of bins, plus 1
\* when metadata is returned, is n_bin; and the bins are in the order in
\* which they were read.
C30_SuccessAccountsForEveryEntry ==
    (BinsCalled /\ result.kind = "Ok")
    => /\ layout.n_bin >= 0
       /\ layout.n_bin <= Len(layout.entries)
       /\ offset = EndOf(layout.n_bin)
       /\ \A j \in 1..Len(result.bins) : result.bins[j].id # metadata_id(DEPTH)
       /\ Len(result.bins) + (IF result.metadata # None THEN 1 ELSE 0) = layout.n_bin
       /\ [j \in 1..Len(result.bins) |-> result.bins[j].id] = OrdinaryIds(layout.n_bin)

\* bin 1, the metadata pseudo-bin and bin 0 were read in that order
C30_Witness ==
    /\ BinsCalled /\ result.kind = "Ok"
    /\ layout.n_bin = 3
    /\ IdOf(1) = 1 /\ IsMetadata(2) /\ IdOf(3) = 0
    /\ result.metadata # None
    /\ Len(result.bins) = 2 /\ result.bins[1].id = 1 /\ result.bins[2].id = 0

\* an entry behind the n_bin entries is left unread
EntryLeftUnreadReached ==
    /\ BinsCalled /\ result.kind = "Ok"
    /\ layout.n_bin = 1 /\ Len(layout.entries) = 2
    /\ offset = EndOf(1) /\ Len(input) > offset

(***************************************************************************)
(*                          read_record (BAM)                              *)
(*                                                                         *)
(* The stream is a sequence of bytes; a reader that fails with an I/O      *)
(* error other than the end of the stream is a stream whose last element   *)
(* is IoFault.  The record keeps the two fields in which the records of    *)
(* the model differ, the mapping quality and the flags.                    *)
(***************************************************************************)

\* ---- bound of the model ----
MaxRecordCalls == 3

\* the place where the reader fails with an error that is not UnexpectedEof
IoFault == 256

OkCount(n) == [kind |-> "Ok", n |-> n]
Panicked == [kind |-> "Panic"]

\* Read::read_exact on the stream into the buffer into: Len(into) bytes, or the
\* error of the reader.  On an error the contents of the buffer are
\* unspecified: the default read_exact has copied the bytes that were there
\* into its front (copies), that of &[u8] and of Cursor has copied nothing;
\* the bytes that were there are consumed either way.  bytes is the buffer
\* after the call.
ReadBytes(s, p, into, copies) ==
    LET n == Len(into)
        faulty == s # <<>> /\ s[Len(s)] = IoFault
        end == IF faulty THEN Len(s) - 1 ELSE Len(s)
    IN  IF end - p >= n
           THEN [status |-> "ok", bytes |-> SubSeq(s, p + 1, p + n), pos |-> p + n]
           ELSE [status |-> IF faulty THEN "Other" ELSE "UnexpectedEof",
                 bytes |-> IF copies THEN SubSeq(s, p + 1, end) \o SubSeq(into, end - p + 1, n)
                           ELSE into,
                 pos |-> end]

\* record.rs:55-64: read_u32 reads into an array of its own
read_block_size(s, p) ==
    LET r == ReadBytes(s, p, <<0, 0, 0, 0>>, TRUE)
    IN  IF r.status = "ok" THEN [status |-> "ok", n |-> ReadU32LE(r.bytes, 0), pos |-> r.pos]
        ELSE IF r.status = "UnexpectedEof" THEN [status |-> "ok", n |-> 0, pos |-> r.pos]
        ELSE [status |-> r.status, n |-> 0, pos |-> r.pos]

\* record.rs:235-247: the fixed-size fields of a record, 32 bytes
FIXED_LEN == 32
RecordDefault == [kind |-> "Record", mapq |-> 255, flag |-> 4]

\* record.rs:135-211 for a record with ref_id = next_ref_id = -1 and
\* pos = next_pos = -1: each getter fails with InvalidData when the bytes of
\* its field are not all there; the bin is skipped with Buf::advance, which
\* panics when they are not (line 162)
decode_record(b, rec) ==
    LET n == Len(b)
        rec1 == [rec EXCEPT !.mapq = b[10]]
        rec2 == [rec1 EXCEPT !.flag = b[15] + 256 * b[16]]
        l_read_name == b[9]
        n_cigar_op == b[13] + 256 * b[14]
        l_seq == ReadU32LE(b, 16)
        need == FIXED_LEN + l_read_name + 4 * n_cigar_op + ((l_seq + 1) \div 2) + l_seq
    IN  IF n < 9 THEN [status |-> "InvalidData", record |-> rec]
        ELSE IF l_read_name = 0 \/ n < 10 THEN [status |-> "InvalidData", record |-> rec]
        ELSE IF n < 12 THEN [status |-> "panic", record |-> rec1]
        ELSE IF n < 16 THEN [status |-> "InvalidData", record |-> rec1]
        ELSE IF n < FIXED_LEN THEN [status |-> "InvalidData", record |-> rec2]
        ELSE IF n < need \/ b[FIXED_LEN + l_read_name] # 0
                THEN [status |-> "InvalidData", record |-> rec2]
        ELSE [status |-> "ok", record |-> rec2]

\* record.rs:32-53; copies is the reader's way with the buffer of a read_exact
\* that fails
read_record(s, p, b, rec, copies) ==
    LET bs == read_block_size(s, p)
    IN  IF bs.status # "ok"
           THEN [ret |-> Err(bs.status, "block_size"), pos |-> bs.pos, buf |-> b, record |-> rec]
        ELSE IF bs.n = 0
           THEN [ret |-> OkCount(0), pos |-> bs.pos, buf |-> b, record |-> rec]
        ELSE LET body == ReadBytes(s, bs.pos, Resize(b, bs.n), copies)
                 d == decode_record(body.bytes, rec)
             IN  IF body.status # "ok"
                    THEN [ret |-> Err(body.status, "body"), pos |-> body.pos,
                          buf |-> body.bytes, record |-> rec]
                 ELSE IF d.status = "panic"
                    THEN [ret |-> Panicked, pos |-> body.pos,
                          buf |-> body.bytes, record |-> d.record]
                 ELSE IF d.status # "ok"
                    THEN [ret |-> Err(d.status, "decode"), pos |-> body.pos,
                          buf |-> body.bytes, record |-> d.record]
                 ELSE [ret |-> OkCount(bs.n), pos |-> body.pos,
                       buf |-> body.bytes, record |-> d.record]

\* ---- the streams ----
\* record.rs:236-247: the record of test_read_record, after its block size
TestRecordBody ==
    << 255, 255, 255, 255,  255, 255, 255, 255,  2,  255,  72, 18,  0, 0,  4, 0,
       0, 0, 0, 0,  255, 255, 255, 255,  255, 255, 255, 255,  0, 0, 0, 0,  42, 0 >>
\* the same record, mapped with quality 30 and flags 0
MappedRecordBody == [TestRecordBody EXCEPT ![10] = 30, ![15] = 0]
RecordBodies == { TestRecordBody, MappedRecordBody }
\* the block sizes written in front of the first record: 0, the 8 of
\* test_read_block_size, two that end in the bin, the 34 of
\* test_read_record, and one with a second byte
BlockSizes == { 0, 8, 10, 11, Len(TestRecordBody), 256 }
RecordLayouts ==
    { [sizes |-> <<n, Len(TestRecordBody)>>, bodies |-> <<a, b>>] :
        n \in BlockSizes, a \in RecordBodies, b \in RecordBodies }
Bytes(l) == U32LE(l.sizes[1]) \o l.bodies[1] \o U32LE(l.sizes[2]) \o l.bodies[2]

InitRecord ==
    /\ CoderIdle
    /\ CigarIdle
    /\ RansIdle
    /\ reader = "record"
    /\ layout \in RecordLayouts
    /\ \E cut \in 0..Len(Bytes(layout)), fault \in { <<>>, <<IoFault>> } :
           input = SubSeq(Bytes(layout), 1, cut) \o fault
    /\ offset = 0
    /\ caller_buf \in { <<>>, <<7>> }
    /\ record = RecordDefault
    /\ result = NoResult
    /\ before = [offset |-> 0, buf |-> caller_buf, record |-> record]
    /\ ncalls = 0
    /\ future = NoFuture

\* one call of read_record (record.rs:32-53); the caller reads on while
\* records come
ReadRecord ==
    /\ reader = "record"
    /\ ncalls < MaxRecordCalls
    /\ result = NoResult \/ (result.kind = "Ok" /\ result.n > 0)
    /\ \E copies \in BOOLEAN :
       LET r == read_record(input, offset, caller_buf, record, copies)
       IN  /\ result' = r.ret
           /\ offset' = r.pos
           /\ caller_buf' = r.buf
           /\ record' = r.record
    /\ before' = [offset |-> offset, buf |-> caller_buf, record |-> record]
    /\ ncalls' = ncalls + 1
    /\ UNCHANGED <<coder, cigar_vars, rans_vars, reader, input, layout, future>>

SpecRecord == InitRecord /\ [][ReadRecord]_vars

\* ---- what the layout says about the stream the last call read ----
RecordCalled == reader = "record" /\ ncalls >= 1
Faulty == input # <<>> /\ input[Len(input)] = IoFault
DataLen == IF Faulty THEN Len(input) - 1 ELSE Len(input)
\* the four bytes of a block size are there
SizeAvailable == DataLen - before.offset >= 4
\* the block size written where the last call began
DeclaredSize == layout.sizes[ncalls]
Unchanged == record = before.record /\ caller_buf = before.buf

\* C20 (as stated): read_block_size returns the little-endian block size when
\* 4 bytes are available, 0 at the end of the stream, and hands on every
\* other I/O error; read_record returns Ok(0) for 0 without changing the
\* record or the buffer, and otherwise returns the block size after reading
\* exactly block_size bytes.
C20_EndOfStreamSignal ==
    RecordCalled =>
        /\ (SizeAvailable /\ DeclaredSize = 0) => (result = OkCount(0) /\ Unchanged)
        /\ (SizeAvailable /\ DeclaredSize > 0) =>
               /\ result = OkCount(DeclaredSize)
               /\ offset = before.offset + 4 + DeclaredSize
        /\ (~SizeAvailable /\ ~Faulty) => (result = OkCount(0) /\ Unchanged)
        /\ (~SizeAvailable /\ Faulty) => (result.kind = "Err" /\ result.error = "Other")

\* the part of C20 that holds: the size is read as stated, and whenever
\* read_record returns a count, 0 leaves the record and buffer alone and a
\* count above 0 is the block size, with exactly that many bytes read into
\* the buffer
CountIsBlockSize ==
    RecordCalled =>
        /\ (SizeAvailable /\ DeclaredSize = 0) => (result = OkCount(0) /\ Unchanged)
        /\ (~SizeAvailable /\ ~Faulty) => (result = OkCount(0) /\ Unchanged)
        /\ (~SizeAvailable /\ Faulty) => (result.kind = "Err" /\ result.error = "Other")
        /\ (result.kind = "Ok" /\ result.n > 0) =>
               /\ SizeAvailable
               /\ result.n = DeclaredSize
               /\ offset = before.offset + 4 + DeclaredSize
               /\ caller_buf = SubSeq(input, before.offset + 5, offset)
        /\ (SizeAvailable /\ DeclaredSize = Len(TestRecordBody)
              /\ DataLen - before.offset >= 4 + DeclaredSize) =>
               result = OkCount(DeclaredSize)

\* the body ended early: the buffer has the block's size and holds either
\* the bytes that were read in front of what it held before, or what it held
\* before alone
ShortBodyBuffer ==
    (RecordCalled /\ result.kind = "Err" /\ result.stage = "body") =>
        /\ Len(caller_buf) = DeclaredSize
        /\ offset = DataLen
        /\ LET got == DataLen - (before.offset + 4)
               kept == Resize(before.buf, DeclaredSize)
           IN  \/ caller_buf = kept
               \/ caller_buf = SubSeq(input, before.offset + 5, DataLen)
                                   \o SubSeq(kept, got + 1, DeclaredSize)

\* the reader failed after one byte of a block of 8: the byte is in the buffer
PartialBodyCopiedReached ==
    /\ RecordCalled /\ ncalls = 1 /\ Faulty /\ DeclaredSize = 8 /\ DataLen = 5
    /\ result.kind = "Err" /\ result.error = "Other" /\ before.buf = <<>>
    /\ caller_buf = <<255, 0, 0, 0, 0, 0, 0, 0>>

\* the same call with a reader that copies nothing
PartialBodyNotCopiedReached ==
    /\ RecordCalled /\ ncalls = 1 /\ Faulty /\ DeclaredSize = 8 /\ DataLen = 5
    /\ result.kind = "Err" /\ result.error = "Other" /\ before.buf = <<7>>
    /\ caller_buf = <<7, 0, 0, 0, 0, 0, 0, 0>>

\* a block that ends in the bin field was read
PanicReached ==
    /\ RecordCalled
    /\ SizeAvailable /\ DeclaredSize = 10 /\ DataLen >= 14
    /\ result = Panicked

\* the end of the stream was signalled after a record was read
EndAfterRecordReached ==
    /\ RecordCalled
    /\ ncalls = 3 /\ ~Faulty /\ before.offset = Len(input)
    /\ result = OkCount(0) /\ record.mapq = 30 /\ Unchanged

(***************************************************************************)
(*                  read_line and Reader (SAM, async)                      *)
(***************************************************************************)

\* ---- bounds of the model ----
MaxLines == 2
MaxLineLen == 2
MaxLineCalls == 3

\* reader.rs:273-274
LINE_FEED == 10
CARRIAGE_RETURN == 13
\* a byte that ends nothing, the 'n' of the lines of test_read_line
LetterByte == 110

\* AsyncBufReadExt::read_until(LINE_FEED, buf) at position p: the bytes up to
\* and including the first LINE_FEED, or all that are left; the reader's
\* error when it fails before a LINE_FEED was found
Fails(s) == s # <<>> /\ s[Len(s)] = IoFault
Data(s) == IF Fails(s) THEN SubSeq(s, 1, Len(s) - 1) ELSE s
RECURSIVE LineEnd(_, _)
LineEnd(s, p) ==
    IF p >= Len(s) THEN Len(s)
    ELSE IF s[p + 1] = LINE_FEED THEN p + 1
    ELSE LineEnd(s, p + 1)
read_until(s, p, b) ==
    LET e == LineEnd(Data(s), p)
        found == e > p /\ s[e] = LINE_FEED
    IN  [status |-> IF ~found /\ Fails(s) THEN "Other" ELSE "ok", found |-> found,
         n |-> e - p, buf |-> b \o SubSeq(s, p + 1, e), pos |-> e]

ends_with(b, byte) == b # <<>> /\ b[Len(b)] = byte
pop(b) == SubSeq(b, 1, Len(b) - 1)

\* reader.rs:277-289: the terminators taken off the buffer
\* (mutant: the CARRIAGE_RETURN before the LINE_FEED is kept)
StripTerminator_KeepCr(b) ==
    IF ends_with(b, LINE_FEED) THEN pop(b) ELSE b
StripTerminator(b) ==
    IF ends_with(b, LINE_FEED)
       THEN IF ends_with(pop(b), CARRIAGE_RETURN) THEN pop(pop(b)) ELSE pop(b)
       ELSE b

\* reader.rs:276-289 once read_until has returned r: n is the count
\* read_until has kept over all its polls
ReadLineReturn(r, n) ==
    IF r.status # "ok" THEN [ret |-> Err(r.status, "read_until"), pos |-> r.pos, buf |-> r.buf]
    ELSE IF n = 0 THEN [ret |-> OkCount(0), pos |-> r.pos, buf |-> r.buf]
    ELSE [ret |-> OkCount(n), pos |-> r.pos, buf |-> StripTerminator(r.buf)]

\* reader.rs:269-290 with a reader that is always ready
read_line(s, p, b) ==
    LET r == read_until(s, p, b)
    IN  ReadLineReturn(r, r.n)

\* ---- the functions of Reader (reader.rs:105-266).  They hand the reader and
\* Reader.buf on to reader/header.rs, record.rs and record_buf.rs, which
\* read a line with read_line: a record into the cleared Reader.buf, the
\* header lines, those beginning with '@', into a buffer of their own ----
TAB == 9
HEADER_PREFIX == 64
\* reader.rs:98-99: the lines of the examples, "@HD\tVN:1.6" and
\* "*\t4\t*\t0\t255\t*\t*\t0\t0\t*\t*"
HeaderLine == <<64, 72, 68, 9, 86, 78, 58, 49, 46, 54>>
RecordLine == <<42, 9, 52, 9, 42, 9, 48, 9, 50, 53, 53, 9, 42, 9, 42, 9, 48, 9, 48, 9, 42, 9, 42>>

\* a line with the 11 mandatory fields of a record
RECURSIVE Tabs(_)
Tabs(b) == IF b = <<>> THEN 0 ELSE (IF Head(b) = TAB THEN 1 ELSE 0) + Tabs(Tail(b))
RecordLike(b) == Tabs(b) >= 10
ParsesAsHeader(b) == b = HeaderLine
Parsed(b) == [kind |-> "Record", line |-> b]
\* a RecordBuf whose first fields were set before a later field failed
PartialRecord == [kind |-> "Partial"]
Some(rec) == [kind |-> "Some", record |-> rec]
Header(lines) == [kind |-> "Header", lines |-> lines]

\* the callers of read_line that clear the buffer before they call it: its
\* test (reader.rs:299) and the functions of Reader that read a record
Clearing == {"read_line", "read_record", "read_record_buf", "records", "record_bufs"}
\* records() and record_bufs() return a stream (stream::try_unfold,
\* reader.rs:181, 257) that borrows the Reader; the caller calls try_next on
\* it as often as they like
Streams == {"records", "record_bufs"}
\* the stream in the caller's hands between two calls of try_next: it is done
\* once its closure has returned Ok(None) or, through the `?` of
\* reader.rs:185 and 259, an error
Stream(fn, done) == [at |-> "stream", fn |-> fn, done |-> done]
\* what is left of the call of fn that has returned returned
Left(fn, returned) ==
    IF fn \in Streams THEN Stream(fn, returned.kind # "Some") ELSE NoFuture

\* what fn makes of the line l that read_line has returned, rec being the
\* caller's record: the return value, the buffer and the record
Returns(fn, l, rec) ==
    IF fn = "read_line" \/ l.ret.kind = "Err"
       THEN { [ret |-> l.ret, buf |-> l.buf, record |-> rec] }
    ELSE IF l.ret.n = 0
       \* reader.rs:186-187, 260-261: 0 ends the stream
       THEN { [ret |-> IF fn \in Streams THEN OkNone ELSE l.ret, buf |-> l.buf, record |-> rec] }
    ELSE IF RecordLike(l.buf)
       THEN { [ret |-> IF fn \in Streams THEN Some(Parsed(l.buf)) ELSE l.ret, buf |-> l.buf,
               record |-> IF fn \in Streams THEN rec ELSE Parsed(l.buf)] }
    ELSE { [ret |-> Err("InvalidData", "parse"), buf |-> l.buf, record |-> r] :
             r \in IF fn = "read_record_buf" THEN {rec, PartialRecord} ELSE {rec} }

\* ---- the call as a future ----
\* read counts the bytes read_until has read for the line in hand, lines the
\* header lines read_header has parsed
LineFuture(fn) == [at |-> "read_until", fn |-> fn, read |-> 0, lines |-> 0]
LineOutcome(fut, returned, p, b, rec) ==
    [future |-> fut, ret |-> returned, pos |-> p, buf |-> b, record |-> rec]

\* the poll of a call that waits in read_until (reader.rs:276) at position p
\* with the buffer b: it yields with the line read up to some q, the bytes
\* appended to the buffer and counted in the future, or read_until returns
\* and the call runs on
RECURSIVE PollLine(_, _, _, _, _)
PollLine(s, fut, p, b, rec) ==
    LET r == read_until(s, p, b)
        last == IF r.found THEN r.pos - 1 ELSE r.pos
        l == ReadLineReturn(r, fut.read + r.n)
    IN  IF fut.fn = "read_header"
           THEN LET yields == { LineOutcome([fut EXCEPT !.read = fut.read + (q - p)],
                                            Pending, q, b, rec) : q \in p..last }
                    line == StripTerminator(SubSeq(s, p - fut.read + 1, r.pos))
                IN  IF fut.read = 0 /\ p >= Len(Data(s))
                       THEN { LineOutcome(fut, Pending, p, b, rec),
                              LineOutcome(NoFuture,
                                          IF Fails(s) THEN Err("Other", "fill_buf")
                                          ELSE Header(fut.lines), p, b, rec) }
                    ELSE IF fut.read = 0 /\ s[p + 1] # HEADER_PREFIX
                       THEN { LineOutcome(fut, Pending, p, b, rec),
                              LineOutcome(NoFuture, Header(fut.lines), p, b, rec) }
                    ELSE yields \cup
                         (IF l.ret.kind = "Err"
                             THEN { LineOutcome(NoFuture, l.ret, r.pos, b, rec) }
                          ELSE IF ~ParsesAsHeader(line)
                             THEN { LineOutcome(NoFuture, Err("InvalidData", "parse"), r.pos, b, rec) }
                          ELSE PollLine(s, [fut EXCEPT !.read = 0, !.lines = fut.lines + 1],
                                        r.pos, b, rec))
           ELSE { LineOutcome([fut EXCEPT !.read = fut.read + (q - p)], Pending, q,
                              b \o SubSeq(s, p + 1, q), rec) : q \in p..last }
                \cup { LineOutcome(Left(fut.fn, x.ret), x.ret, r.pos, x.buf, x.record) :
                         x \in Returns(fut.fn, l, rec) }

\* ---- the streams: lines, each a body without LINE_FEED and, but for a
\* last line that the stream ends in, a LINE_FEED ----
LineBodies == UNION { [1..n -> {LetterByte, CARRIAGE_RETURN}] : n \in 0..MaxLineLen }
Line(body, lf) == [body |-> body, lf |-> lf]
\* reader.rs:306-308
TestLines == { Line(Noodles, TRUE), Line(Noodles \o <<CARRIAGE_RETURN>>, TRUE),
               Line(Noodles, FALSE) }
LineLayouts ==
    { ls \in UNION { [1..n -> { Line(b, lf) : b \in LineBodies, lf \in BOOLEAN }] :
                        n \in 0..MaxLines } :
        \A k \in 1..Len(ls) :
            /\ (k < Len(ls) => ls[k].lf)
            /\ (~ls[k].lf => ls[k].body # <<>>) }
    \cup { <<l>> : l \in TestLines }
\* reader.rs:98-99: a header line and a record; a record alone, ended by
\* CARRIAGE_RETURN LINE_FEED or by the end of the stream; a header alone
SamLayouts ==
    { << Line(HeaderLine, TRUE), Line(RecordLine, TRUE) >>,
      << Line(RecordLine \o <<CARRIAGE_RETURN>>, TRUE) >>,
      << Line(RecordLine, FALSE) >>,
      << Line(HeaderLine, TRUE) >> }
LineBytes(l) == l.body \o (IF l.lf THEN <<LINE_FEED>> ELSE <<>>)
RECURSIVE StreamOf(_)
StreamOf(ls) == IF ls = <<>> THEN <<>> ELSE LineBytes(Head(ls)) \o StreamOf(Tail(ls))

\* read_line is private: it is called by its test (reader = "line"), on a
\* buffer that is new (reader.rs:305) and cleared before every call
\* (reader.rs:299), and on Reader.buf, empty in a new Reader, by the
\* functions of Reader (reader = "sam")
InitLine ==
    /\ CoderIdle
    /\ CigarIdle
    /\ RansIdle
    /\ \/ /\ reader = "line"
          /\ layout \in LineLayouts
       \/ /\ reader = "sam"
          /\ layout \in SamLayouts \cup { ls \in LineLayouts : Len(ls) <= 1 }
    /\ caller_buf = <<>>
    /\ \E fault \in { <<>>, <<IoFault>> } : input = StreamOf(layout) \o fault
    /\ offset = 0
    /\ record = NoRecord
    /\ result = NoResult
    /\ before = [offset |-> 0, buf |-> caller_buf, record |-> record,
                 fn |-> "none", last |-> NoResult, ended |-> FALSE]
    /\ ncalls = 0
    /\ future = NoFuture

\* what a poll leaves behind
PolledLine(o) ==
    /\ future' = o.future
    /\ result' = o.ret
    /\ offset' = o.pos
    /\ caller_buf' = o.buf
    /\ record' = o.record

\* no call is being polled; a stream may be in the caller's hands
Waiting == future.at = "read_until"

\* fn is called and polled for the first time.  For a stream this is
\* try_next, on a new stream or on the one in hand that is not done: the
\* closure calls read_record or read_record_buf (reader.rs:185, 259).  A
\* stream in hand is let go before any other function of Reader is called.
CallLine(fn) ==
    /\ ~Waiting
    /\ ncalls < MaxLineCalls
    /\ \E o \in PollLine(input, LineFuture(fn), offset,
                         IF fn \in Clearing THEN <<>> ELSE caller_buf, record) : PolledLine(o)
    /\ before' = [offset |-> offset, buf |-> caller_buf, record |-> record,
                  fn |-> fn, last |-> result, ended |-> FALSE]
    /\ ncalls' = ncalls + 1
    /\ UNCHANGED <<coder, cigar_vars, rans_vars, reader, input, layout>>

\* try_next on the stream in hand that is done: None, and the closure is not
\* called, so nothing is read and Reader.buf is not cleared
TryNextDone(fn) ==
    /\ future = Stream(fn, TRUE)
    /\ ncalls < MaxLineCalls
    /\ result' = OkNone
    /\ before' = [offset |-> offset, buf |-> caller_buf, record |-> record,
                  fn |-> fn, last |-> result, ended |-> TRUE]
    /\ ncalls' = ncalls + 1
    /\ UNCHANGED <<coder, cigar_vars, rans_vars, reader, input, layout, offset, caller_buf,
                   record, future>>

\* read_line as its test calls it: the buffer is cleared and read_line is
\* awaited (reader.rs:299-300, 269-290)
ReadLine == reader = "line" /\ CallLine("read_line")
\* Reader::read_header (reader.rs:105-107)
ReadSamHeader == reader = "sam" /\ CallLine("read_header")
\* Reader::read_record (reader.rs:227-229)
ReadSamRecord == reader = "sam" /\ CallLine("read_record")
\* Reader::read_record_buf (reader.rs:143-149)
ReadRecordBuf == reader = "sam" /\ CallLine("read_record_buf")
\* try_next on a stream of Reader::records (reader.rs:256-266)
Records == reader = "sam" /\ (CallLine("records") \/ TryNextDone("records"))
\* try_next on a stream of Reader::record_bufs (reader.rs:180-193)
RecordBufs == reader = "sam" /\ (CallLine("record_bufs") \/ TryNextDone("record_bufs"))

\* Reader::get_mut (reader.rs:42-44): the caller reads k bytes from the
\* reader itself
GetMut ==
    /\ reader = "sam"
    /\ ~Waiting
    /\ ncalls < MaxLineCalls
    /\ \E k \in 1..(Len(Data(input)) - offset) : offset' = offset + k
    /\ result' = [kind |-> "Borrowed"]
    /\ before' = [offset |-> offset, buf |-> caller_buf, record |-> record,
                  fn |-> "get_mut", last |-> result, ended |-> FALSE]
    /\ ncalls' = ncalls + 1
    /\ future' = NoFuture
    /\ UNCHANGED <<coder, cigar_vars, rans_vars, reader, input, layout, caller_buf, record>>

\* the call that has yielded is polled again (for a stream: by the same
\* try_next or by a later one, the stream keeps the future of its closure)
PollLineCall ==
    /\ reader \in {"line", "sam"}
    /\ Waiting
    /\ \E o \in PollLine(input, future, offset, caller_buf, record) : PolledLine(o)
    /\ UNCHANGED <<coder, cigar_vars, rans_vars, reader, input, layout, before, ncalls>>

\* the caller drops the call that has yielded (for a stream: the stream): the
\* bytes it has read are gone from the stream and stay in the buffer, their
\* count is gone with the future
DropLine ==
    /\ reader \in {"line", "sam"}
    /\ Waiting
    /\ future' = NoFuture
    /\ result' = Cancelled
    /\ UNCHANGED <<coder, cigar_vars, rans_vars, reader, input, layout, before, ncalls,
                   offset, caller_buf, record>>

NextLine ==
    \/ ReadLine \/ ReadSamHeader \/ ReadSamRecord \/ ReadRecordBuf \/ Records \/ RecordBufs
    \/ GetMut \/ PollLineCall \/ DropLine

SpecLine == InitLine /\ [][NextLine]_vars

\* ---- what the stream says about the call that has returned ----
LineReturned(fns) ==
    /\ reader \in {"line", "sam"} /\ before.fn \in fns
    /\ result \notin {NoResult, Pending, Cancelled}
LineCalled == LineReturned({"read_line"})
\* the call began at the end of the stream
AtEndOfStream == before.offset >= Len(Data(input))
\* the bytes the call has consumed
Consumed == SubSeq(input, before.offset + 1, offset)
\* the reader fails before the line has its LINE_FEED
FaultInLine == Fails(input) /\ \A k \in (before.offset + 1)..Len(Data(input)) : input[k] # LINE_FEED
\* what was consumed is one line: up to the first LINE_FEED, or all there was
OneLine ==
    /\ Consumed # <<>>
    /\ \A k \in 1..(Len(Consumed) - 1) : Consumed[k] # LINE_FEED
    /\ ends_with(Consumed, LINE_FEED) \/ offset = Len(Data(input))
\* a line without its LINE_FEED and the CARRIAGE_RETURN directly before it
LineText(c) ==
    LET body == IF ends_with(c, LINE_FEED) THEN pop(c) ELSE c
    IN  IF ends_with(c, LINE_FEED) /\ ends_with(body, CARRIAGE_RETURN) THEN pop(body) ELSE body
\* the count is the bytes consumed, and it is 0 only at the end of the stream
CountIsConsumed ==
    /\ result.kind = "Ok"
    /\ result.n = offset - before.offset
    /\ (result.n = 0) = AtEndOfStream
    /\ AtEndOfStream => caller_buf = <<>>
    /\ ~AtEndOfStream => OneLine
\* read_record and read_record_buf return the count of read_line
CountOfReadLine ==
    (LineReturned({"read_record", "read_record_buf"}) /\ result.kind = "Ok") =>
        /\ result.n = offset - before.offset
        /\ (result.n = 0) = AtEndOfStream
        /\ ~AtEndOfStream => (OneLine /\ caller_buf = LineText(Consumed))
\* a try_next that calls read_record or read_record_buf (reader.rs:185, 259)
\* ends the stream on the count 0, that is at the end of the stream and
\* nowhere else, and gives the record of the line otherwise
EndsTheStreams ==
    /\ (LineReturned(Streams) /\ ~before.ended /\ ~FaultInLine) =>
           /\ (result = OkNone) = AtEndOfStream
           /\ ~AtEndOfStream => (OneLine /\ result.kind \in {"Some", "Err"})
           /\ result.kind = "Some" => result.record = Parsed(LineText(Consumed))
    /\ CountOfReadLine

\* C21: read_line appends the line to the buffer, which its callers have
\* cleared, without its LINE_FEED and without the CARRIAGE_RETURN directly
\* before that LINE_FEED, keeps a last line without LINE_FEED whole, and
\* returns the number of bytes consumed, 0 only at the end of the stream,
\* which ends the streams of records() and record_bufs().
C21_LineAppended ==
    /\ (LineCalled /\ ~FaultInLine) =>
         /\ CountIsConsumed
         /\ ~AtEndOfStream => caller_buf = LineText(Consumed)
    /\ EndsTheStreams

\* when the reader fails before the LINE_FEED the error is returned, with the
\* bytes read until then in the buffer
FaultIsReturned ==
    (LineCalled /\ FaultInLine) =>
        /\ result = Err("Other", "read_until")
        /\ offset = Len(Data(input))
        /\ caller_buf = Consumed

\* a stream that has returned None or an error returns None from then on,
\* wherever the reader is, and reads nothing (stream::try_unfold)
DoneStreamReturnsNone ==
    (LineReturned(Streams) /\ before.ended) =>
        /\ before.last.kind \in {"None", "Err"}
        /\ result = OkNone
        /\ offset = before.offset /\ caller_buf = before.buf /\ record = before.record

\* read_line itself does not look at what the buffer held: handed a buffer
\* that ends with CARRIAGE_RETURN and a bare LINE_FEED, it takes both off
\* (reader.rs:279-285); no caller hands it such a buffer
CrInBufferTaken ==
    read_line(<<LINE_FEED>>, 0, <<CARRIAGE_RETURN>>) =
        [ret |-> OkCount(1), pos |-> 1, buf |-> <<>>]

\* C21 witness: the line n CARRIAGE_RETURN LINE_FEED was read as n with the
\* count 3, and the next call found the end of the stream
C21_Witness ==
    /\ LineCalled
    /\ ncalls = 2 /\ Len(layout) = 1
    /\ layout[1] = Line(<<LetterByte, CARRIAGE_RETURN>>, TRUE)
    /\ before.last = OkCount(3) /\ before.buf = <<LetterByte>>
    /\ caller_buf = <<>>
    /\ result = OkCount(0)

\* the last line n CARRIAGE_RETURN, without LINE_FEED, was kept whole
LastLineKeptReached ==
    /\ LineCalled /\ ncalls = 1 /\ input = <<LetterByte, CARRIAGE_RETURN>>
    /\ result = OkCount(2) /\ caller_buf = <<LetterByte, CARRIAGE_RETURN>>

\* a call yields and is polled until it returns: it comes to what the call
\* with a reader that is always ready comes to
SameLinePolledAsReady ==
    LineCalled =>
        LET r == read_line(input, before.offset, <<>>)
        IN  result = r.ret /\ offset = r.pos /\ caller_buf = r.buf

\* the stream n | n LF: the call has yielded after one byte ...
LineYieldedReached ==
    /\ reader = "line" /\ input = <<LetterByte, LetterByte, LINE_FEED>> /\ ncalls = 1
    /\ result = Pending /\ offset = 1 /\ caller_buf = <<LetterByte>> /\ future.read = 1

\* ... was dropped, and the next call has returned the count of the rest
ShortCountAfterDropReached ==
    /\ reader = "line" /\ input = <<LetterByte, LetterByte, LINE_FEED>> /\ ncalls = 2
    /\ before.last = Cancelled /\ before.offset = 1
    /\ before.buf = <<LetterByte>>
    /\ result = OkCount(2) /\ caller_buf = <<LetterByte>>

\* the stream n CR | LF: the call that read n CR was dropped, and the next
\* call has read the LINE_FEED as an empty line
BareLineAfterDropReached ==
    /\ reader = "line" /\ input = <<LetterByte, CARRIAGE_RETURN, LINE_FEED>> /\ ncalls = 2
    /\ before.last = Cancelled /\ before.offset = 2 /\ before.buf = <<LetterByte, CARRIAGE_RETURN>>
    /\ result = OkCount(1) /\ caller_buf = <<>>

\* the reader has failed after one byte
LineFaultReached ==
    /\ reader = "line" /\ input = <<LetterByte, IoFault>> /\ ncalls = 1 /\ before.buf = <<>>
    /\ result = Err("Other", "read_until") /\ offset = 1 /\ caller_buf = <<LetterByte>>

\* the header and the record of the examples were read, and the stream of
\* records has ended
ExampleReadReached ==
    /\ reader = "sam" /\ layout = << Line(HeaderLine, TRUE), Line(RecordLine, TRUE) >>
    /\ ncalls = 3 /\ before.fn = "records" /\ result = OkNone
    /\ record = Parsed(RecordLine) /\ caller_buf = <<>> /\ offset = Len(input)

\* the reader n then an I/O error: the stream has returned the error and
\* then None, with the reader and Reader.buf as the error left them
NoneAfterErrorReached ==
    /\ reader = "sam" /\ input = <<LetterByte, IoFault>> /\ ncalls = 2
    /\ before.fn \in Streams /\ before.ended
    /\ before.last = Err("Other", "read_until")
    /\ result = OkNone /\ offset = 1 /\ caller_buf = <<LetterByte>>

\* the stream of records was begun at the header line: it has returned
\* InvalidData, None and None, and the record behind the header is not read
RecordNeverReadReached ==
    /\ reader = "sam" /\ layout = << Line(HeaderLine, TRUE), Line(RecordLine, TRUE) >>
    /\ ~Fails(input) /\ ncalls = 3 /\ before.fn = "records" /\ before.ended
    /\ before.last = OkNone /\ result = OkNone
    /\ offset = Len(HeaderLine) + 1 /\ caller_buf = HeaderLine

\* a new stream of records() after one that has ended on an error reads on
NewStreamReadsOnReached ==
    /\ reader = "sam" /\ layout = << Line(HeaderLine, TRUE), Line(RecordLine, TRUE) >>
    /\ ncalls = 2 /\ before.fn = "records" /\ ~before.ended
    /\ before.last = Err("InvalidData", "parse") /\ before.offset = Len(HeaderLine) + 1
    /\ result = Some(Parsed(RecordLine)) /\ future = Stream("records", FALSE)

\* a record was read behind bytes the caller had taken from the reader itself
ReadBehindGetMutReached ==
    /\ reader = "sam" /\ ncalls = 2 /\ before.last = [kind |-> "Borrowed"]
    /\ before.offset = Len(HeaderLine) + 1 /\ before.fn = "read_record_buf"
    /\ result = OkCount(Len(RecordLine) + 1) /\ record = Parsed(RecordLine)

(* ======================================================================= *)
(* One encoder step and the decoder step that undoes it                     *)
(* (encode.rs:30-46 normalize and update, order_1.rs:40-49)                 *)
(*                                                                          *)
(* The encoder is about to code symbol `sym` of a frequency table: it       *)
(* normalizes the lane state (one iteration of the while loop per action),  *)
(* updates it, and the decoder then looks the symbol up in the low 12 bits  *)
(* and advances the state.                                                  *)
(* ======================================================================= *)

\* iterations of the while loop of normalize that are followed at most
MaxSpin == 4

\* the table the step is made with: the coded symbol 98 of frequency f, below
\* it symbol 97 holding the cumulative frequency c, above it symbol 99 holding
\* what is left of 4096
StepTable(f, c) ==
    [ b \in {98} \cup (IF c > 0 THEN {97} ELSE {}) \cup (IF c + f < 4096 THEN {99} ELSE {})
        |-> IF b = 98 THEN f ELSE IF b = 97 THEN c ELSE 4096 - c - f ]

\* frequencies, and the cumulative frequencies going with each
StepFreqs == {0, 1, 2, 3, 15, 16, 17, 255, 256, 4095, 4096}
StepCums(f) == { c \in {0, 1, 7, 2048, 4095 - f, 4096 - f} : c >= 0 /\ c + f <= 4096 }

\* lane states as the encoder holds them before normalize: the ends of
\* [LOWER_BOUND, LOWER_BOUND * 256), the values around the thresholds
\* (LOWER_BOUND >> 4) * f and ((LOWER_BOUND >> 4) * f) << 8, and a few between
LaneStates(f) ==
    LET t == (LOWER_BOUND \div 16) * f
    IN  { x \in {LOWER_BOUND, LOWER_BOUND + 1, LOWER_BOUND + 255, 2 * LOWER_BOUND - 1,
                 2 * LOWER_BOUND, 305419896, 1985229328, 127 * LOWER_BOUND,
                 256 * (LOWER_BOUND - 1) + 255, 255 * LOWER_BOUND + 1,
                 t - 1, t, t + 1}
                \cup (IF f < 16 THEN {256 * t - 1, 256 * t, 256 * t + 1, 256 * t + 255} ELSE {})
            : x >= LOWER_BOUND /\ x \div 256 < LOWER_BOUND }

\* states below (LOWER_BOUND >> 4) * f, as update takes them, whether or not
\* they come out of normalize
UpdateStates(f) ==
    LET top == (LOWER_BOUND \div 16) * (f - 1) + ((LOWER_BOUND \div 16) - 1)
    IN  { x \in {0, 1, f - 1, f, f + 1, 2 * f - 1, 4095, 4096, 4097, 123456,
                 top - f, top - 1, top} : x >= 0 /\ x <= top }

Coder(at, from, f, c, x) ==
    [at |-> at, from |-> from, sym |-> 98, table |-> StepTable(f, c),
     x0 |-> x, x |-> x, out |-> <<>>, normalized |-> x, updated |-> x, found |-> 98]

freq_i  == Get(coder.table, coder.sym)
cfreq_i == Cum(coder.table, coder.sym)

InitStep ==
    /\ CigarIdle /\ RansIdle /\ IoIdle
    /\ \E f \in StepFreqs :
           \/ /\ f <= 4095
              /\ \E c \in StepCums(f), x \in LaneStates(f) :
                     coder = Coder("normalize", "normalize", f, c, x)
           \/ /\ f >= 1
              /\ \E c \in StepCums(f), x \in UpdateStates(f) :
                     coder = Coder("update", "update", f, c, x)

\* encode.rs:34-38: one iteration of the while loop
NormalizeLoop ==
    /\ coder.at = "normalize"
    /\ NormalizeContinues(coder.x, freq_i)
    /\ Len(coder.out) < MaxSpin
    /\ coder' = [coder EXCEPT !.out = Append(@, coder.x % 256), !.x = coder.x \div 256]
    /\ UNCHANGED <<cigar_vars, rans_vars, io_vars>>

\* encode.rs:34 and 40: the condition fails and x is returned
NormalizeReturn ==
    /\ coder.at = "normalize"
    /\ ~NormalizeContinues(coder.x, freq_i)
    /\ coder' = [coder EXCEPT !.at = "update", !.normalized = coder.x]
    /\ UNCHANGED <<cigar_vars, rans_vars, io_vars>>

\* encode.rs:43-46
Update ==
    /\ coder.at = "update"
    /\ LET x1 == update(coder.x, freq_i, cfreq_i)
       IN  coder' = [coder EXCEPT !.at = "decode", !.x = x1, !.updated = x1]
    /\ UNCHANGED <<cigar_vars, rans_vars, io_vars>>

\* order_1.rs:40-49: the lookup in the low 12 bits and the advance
DecodeStep ==
    /\ coder.at = "decode"
    /\ LET f == rans_get_cumulative_freq(coder.x)
           s == cumulative_freqs_symbol(coder.table, f)
       IN  coder' = [coder EXCEPT !.at = "done", !.found = s,
                         !.x = rans_advance_step(coder.x, Get(coder.table, s),
                                                 Cum(coder.table, s))]
    /\ UNCHANGED <<cigar_vars, rans_vars, io_vars>>

NextStep == NormalizeLoop \/ NormalizeReturn \/ Update \/ DecodeStep

SpecStep == InitStep /\ [][NextStep]_vars

\* ---- what the claims speak of ----

\* the low 12 bits of a state
Low12(x) == x % 4096

\* the step is one the claims cover: f >= 1 and c + f <= 4096
Covered == coder.at # "idle" /\ freq_i >= 1 /\ cfreq_i + freq_i <= 4096

\* C24: for f >= 1, c + f <= 4096 and x < 2^19 * f, update(x, f, c) is
\* (x / f) * 4096 + (x mod f) + c, its low 12 bits lie in [c, c + f), the
\* decoder's lookup finds the coded symbol, and the decoder step returns x.
C24_StepsAreInverse ==
    (Covered /\ coder.at \in {"decode", "done"}
        /\ coder.normalized \div freq_i < LOWER_BOUND \div 16)
    => /\ coder.updated = (coder.normalized \div freq_i) * 4096
                              + (coder.normalized % freq_i) + cfreq_i
       /\ Low12(coder.updated) >= cfreq_i
       /\ Low12(coder.updated) < cfreq_i + freq_i
       /\ coder.at = "done" => /\ coder.found = coder.sym
                               /\ coder.x = coder.normalized

\* a step with c > 0 and a remainder x mod f > 0 has been undone, from a state
\* that did not come out of normalize
C24_Witness ==
    /\ Covered /\ coder.at = "done" /\ coder.from = "update"
    /\ cfreq_i > 0 /\ freq_i > 1
    /\ coder.normalized % freq_i > 0 /\ coder.normalized >= freq_i
    /\ coder.found = coder.sym /\ coder.x = coder.normalized

\* the largest frequency, 4096, with the largest state below 2^19 * f
FullTableReached ==
    /\ Covered /\ coder.at = "done" /\ freq_i = 4096
    /\ coder.normalized = 256 * (LOWER_BOUND - 1) + 255
    /\ coder.x = coder.normalized

\* the first k bytes of x, low byte first
RECURSIVE LowBytes(_, _)
LowBytes(x, k) == IF k = 0 THEN <<>> ELSE <<x % 256>> \o LowBytes(x \div 256, k - 1)

\* C27: from LOWER_BOUND <= x < LOWER_BOUND * 256 with 1 <= f <= 4095 and
\* c + f <= 4096, normalize stops after writing at most 2 bytes, low byte
\* first, and update gives a state in [LOWER_BOUND, LOWER_BOUND * 256), which
\* fits 32 bits; with f = 0 the loop of normalize is never left.
C27_EncoderStateBound ==
    (coder.at # "idle" /\ coder.from = "normalize")
    => /\ (freq_i >= 1 /\ freq_i <= 4095)
          => /\ Len(coder.out) <= 2
             /\ coder.out = LowBytes(coder.x0, Len(coder.out))
             /\ (coder.at = "normalize" /\ Len(coder.out) = 2)
                   => ~NormalizeContinues(coder.x, freq_i)
             /\ coder.at # "normalize"
                   => coder.normalized = normalize(<<>>, coder.x0, freq_i).x
             /\ coder.at \in {"decode", "done"}
                   => /\ coder.updated >= LOWER_BOUND
                      /\ coder.updated \div 256 < LOWER_BOUND
       /\ freq_i = 0
          => /\ coder.at = "normalize"
             /\ NormalizeContinues(coder.x, freq_i)

\* normalize has written 2 bytes and update has put the state back in range
C27_Witness ==
    /\ coder.at = "done" /\ coder.from = "normalize"
    /\ freq_i >= 1 /\ freq_i <= 4095
    /\ Len(coder.out) = 2
    /\ coder.updated >= LOWER_BOUND /\ coder.updated \div 256 < LOWER_BOUND

\* with f = 0 the loop has gone round MaxSpin times and goes on
SpinReached ==
    /\ coder.at = "normalize" /\ coder.from = "normalize" /\ freq_i = 0
    /\ Len(coder.out) = MaxSpin /\ coder.x = 0
    /\ NormalizeContinues(coder.x, freq_i)

\* normalize has written nothing and the state is in range all the same
NoByteReached ==
    /\ coder.at = "done" /\ coder.from = "normalize" /\ coder.out = <<>>
    /\ coder.updated >= LOWER_BOUND

(* ======================================================================= *)
(* read_frequencies_1 on its own (order_1.rs:78-108)                        *)
(*                                                                          *)
(* The stream is laid out from groups: a context symbol, a run-length byte  *)
(* when the symbol follows the last context of the group before, and the    *)
(* order-0 tables of the symbol and of the run; a 0 ends the groups.  The   *)
(* reader is given a prefix of that stream.                                 *)
(* ======================================================================= *)

MaxGroups == 2
MaxRun == 2

\* two order-0 tables as read_frequencies_0 takes them: { 97: 5 }, and
\* { 97: 3, 98: 513 } with the run marker of symbol 98 and a 2-byte frequency
OrderZeroTables ==
    { [bytes |-> <<97, 5, 0>>, table |-> Put(EmptyTable, 97, 5)],
      [bytes |-> <<97, 3, 98, 0, 130, 1, 0>>, table |-> Put(Put(EmptyTable, 97, 3), 98, 513)] }

ContextSymbols == {0, 1, 253, 254, 255}

RECURSIVE TableLists(_)
TableLists(n) ==
    IF n = 0 THEN {<<>>}
    ELSE { <<t>> \o r : t \in OrderZeroTables, r \in TableLists(n - 1) }

\* the groups that can follow a group whose last context is prev (-1: none)
Groups(prev) ==
    UNION { IF prev >= 0 /\ prev < 255 /\ sym = prev + 1
               THEN UNION { { [sym |-> sym, run |-> n, tables |-> ts] : ts \in TableLists(n + 1) }
                            : n \in 0..MaxRun }
               ELSE { [sym |-> sym, run |-> -1, tables |-> ts] : ts \in TableLists(1) }
            : sym \in IF prev = -1 THEN ContextSymbols ELSE ContextSymbols \ {0} }

\* the last context a group announces; above 255 the run goes past the alphabet
LastContext(g) == IF g.run = -1 THEN g.sym ELSE g.sym + g.run

RECURSIVE GroupLists(_, _)
GroupLists(prev, k) ==
    UNION { { <<g>> \o r : r \in IF k = 1 \/ LastContext(g) >= ALPHABET_SIZE THEN {<<>>}
                                 ELSE {<<>>} \cup GroupLists(LastContext(g), k - 1) }
            : g \in Groups(prev) }

\* the 4 states of order_1.rs:24, each LOWER_BOUND
FourStates == Concat([ k \in 1..STATE_COUNT |-> U32LE(LOWER_BOUND) ])

TableLayouts == { [groups |-> gs, tail |-> tl] : gs \in GroupLists(-1, MaxGroups),
                                                 tl \in {<<>>, <<7>>, FourStates} }

GroupBytes(g) ==
    <<g.sym>> \o (IF g.run >= 0 THEN <<g.run>> ELSE <<>>)
              \o Concat([ k \in 1..Len(g.tables) |-> g.tables[k].bytes ])

\* the groups and the 0 that ends them
Laid(l) == Concat([ k \in 1..Len(l.groups) |-> GroupBytes(l.groups[k]) ]) \o <<0>>

InitTables ==
    /\ CoderIdle
    /\ CigarIdle
    /\ RansIdle
    /\ reader = "read_frequencies_1"
    /\ layout \in TableLayouts
    /\ \E cut \in 0..Len(Laid(layout) \o layout.tail) :
           input = SubSeq(Laid(layout) \o layout.tail, 1, cut)
    /\ offset = 0
    /\ caller_buf = <<>>
    /\ record = NoRecord
    /\ result = NoResult
    /\ before = [offset |-> 0, buf |-> <<>>, record |-> NoRecord]
    /\ ncalls = 0
    /\ future = NoFuture

\* one call of read_frequencies_1 on zeroed frequencies, in either build
ReadFrequencies1 ==
    /\ reader = "read_frequencies_1"
    /\ ncalls = 0
    /\ \E checked \in BOOLEAN :
           LET res == read_frequencies_1(input, offset, checked)
           IN  /\ result' = [kind |-> res.status, freqs |-> res.freqs, checked |-> checked]
               /\ offset' = res.pos
    /\ before' = [offset |-> offset, buf |-> caller_buf, record |-> record]
    /\ ncalls' = ncalls + 1
    /\ UNCHANGED <<coder, cigar_vars, rans_vars, reader, input, caller_buf, record, layout, future>>

SpecTables == InitTables /\ [][ReadFrequencies1]_vars

\* ---- what the layout says about the call ----
TablesCalled == reader = "read_frequencies_1" /\ ncalls = 1

\* a run-length byte announces contexts past 255
Overrun == \E k \in 1..Len(layout.groups) : LastContext(layout.groups[k]) >= ALPHABET_SIZE

\* the reader was given all the groups and the 0 after them
GivenWhole == Len(input) >= Len(Laid(layout))

\* the tables of the layout in stream order, each with the context it is laid
\* out for: the symbol of its group, then the consecutive values of the run
LaidTables ==
    Concat([ k \in 1..Len(layout.groups) |->
               [ j \in 1..Len(layout.groups[k].tables) |->
                   [ctx |-> layout.groups[k].sym + j - 1,
                    table |-> layout.groups[k].tables[j].table] ] ])

\* the frequencies the laid tables give, a later table of a context writing
\* over the symbols it names
RECURSIVE Filled(_, _)
Filled(F, ts) ==
    IF ts = <<>> THEN F
    ELSE LET old == Context(F, Head(ts).ctx)
             new == Head(ts).table
         IN  Filled(Put(F, Head(ts).ctx,
                        [ b \in DOMAIN old \cup DOMAIN new |->
                            IF b \in DOMAIN new THEN new[b] ELSE old[b] ]),
                    Tail(ts))

\* what the layout has read_frequencies_1 do: Ok at the 0 behind the groups,
\* with every laid table in its context, when the stream holds them all, and
\* the end of the input otherwise
ReadAsLaid ==
    IF GivenWhole
       THEN /\ result.kind = "ok"
            /\ offset = Len(Laid(layout))
            /\ result.freqs = Filled(EmptyTable, LaidTables)
       ELSE result.kind = "eof"

\* C25: read_frequencies_1 reads the first context symbol and its table, a
\* run-length byte n after a context symbol that is the previous context + 1
\* and then the tables of that context and of the n next ones with no symbol
\* byte between them, an explicit context symbol after every other table, and
\* stops exactly at the context symbol 0 read after a table.
C25_TableReadingOrder ==
    TablesCalled => ReadAsLaid

\* the streams whose runs end at or before context 255 are read as laid
ReadAsLaidWithinAlphabet ==
    (TablesCalled /\ ~Overrun) => ReadAsLaid

\* Ok was returned with no context symbol 0 read: the reading has stopped
\* behind the table of context 255, in front of the table laid after it
StoppedWithoutZeroReached ==
    /\ TablesCalled /\ Overrun /\ GivenWhole /\ ~result.checked
    /\ result.kind = "ok" /\ offset < Len(Laid(layout)) - 1
    /\ input[offset + 1] # 0

\* a run of 2 contexts after a context symbol was read whole, with a group
\* before it and bytes left behind the final 0
RunReadWholeReached ==
    /\ TablesCalled /\ ~Overrun /\ GivenWhole
    /\ Len(layout.groups) = 2 /\ layout.groups[2].run = 2
    /\ layout.tail # <<>> /\ Len(input) > Len(Laid(layout))
    /\ result.kind = "ok" /\ offset = Len(Laid(layout))
    /\ DOMAIN result.freqs = {0, 1, 2, 3}

\* the first context symbol is 0 and its table is read all the same
FirstContextZeroReached ==
    /\ TablesCalled /\ GivenWhole /\ layout.groups[1].sym = 0
    /\ result.kind = "ok" /\ 0 \in DOMAIN result.freqs

\* C28: read_frequencies_1 ends with Ok or with an I/O error on every stream
\* and the context symbol never goes past 255, also when a run-length byte
\* announces more contexts than are left: Ok is returned only at the context
\* symbol 0 that ends the groups.
C28_ContextStaysInAlphabet ==
    TablesCalled
    => /\ result.kind \in {"ok", "eof"}
       /\ result.kind = "ok" => (GivenWhole /\ offset = Len(Laid(layout)))

\* with overflow checks the call panics at sym += 1
TablePanicReached ==
    /\ TablesCalled /\ Overrun /\ result.checked /\ result.kind = "panic"

\* without them the context wraps to 0 and Ok is returned before the stream's 0
TableWrapReached ==
    /\ TablesCalled /\ Overrun /\ ~result.checked /\ result.kind = "ok"
    /\ offset < Len(Laid(layout)) /\ 255 \in DOMAIN result.freqs

\* outside an overrun the build makes no difference
BuildIndependent ==
    (TablesCalled /\ ~Overrun) => result.kind # "panic"

\* the 4 states behind the tables are below 2^31
StatesBelowSignBit ==
    \A k \in 1..STATE_COUNT : offset + 4 * k <= Len(input) => input[offset + 4 * k] < 128

\* order_1.rs:16-24: decode ends as read_frequencies_1 does when that fails,
\* and reads the 4 states from where it has stopped when it returns Ok, in
\* the build without overflow checks also after the context has wrapped
DecodeFollowsTables ==
    (TablesCalled /\ StatesBelowSignBit)
    => LET d == decode_1(input, before.offset, 0, result.checked)
       IN  d.status = IF result.kind # "ok" THEN result.kind
                      ELSE IF offset + 4 * STATE_COUNT > Len(input) THEN "eof"
                      ELSE "ok"

\* the run past 255 that panics in one build is decoded in the other: the
\* states are read from the tables that were left unread
DecodeBehindWrapReached ==
    /\ TablesCalled /\ Overrun /\ ~result.checked /\ StatesBelowSignBit
    /\ decode_1(input, before.offset, 0, FALSE).status = "ok"
    /\ decode_1(input, before.offset, 0, TRUE).status = "panic"

====
